---- MODULE Spec2Model ----
(***************************************************************************)
(* Model of the Safari build tool (build_safari): the command-line entry   *)
(* point, the build configuration, the step pipeline of run_build and the  *)
(* retry loop of StapleStep.                                               *)
(***************************************************************************)
EXTENDS Integers, Sequences, FiniteSets, TLC

VARIABLES
    \* inputs of one invocation of the tool
    args,            \* parsed command line (cli.parse_args)
    environ,         \* os.environ entries read by DeveloperConfig.from_env
    app,             \* AppConfig read from pyproject.toml
    pyproject_ok,    \* whether pyproject.toml can be read and parsed
    app_exists,      \* whether config.app_path exists on disk
    stdout_isatty,   \* sys.stdout.isatty()
    \* main()
    config,          \* the BuildConfig, None until loaded
    use_tui,         \* should_use_tui(args)
    exit_code,       \* the exit code of the process, as a list: empty until it exits
    started,         \* what main set going, in order: the logger, a ui, run_build
    stderr,          \* the lines main printed to sys.stderr, in order
    pc,              \* position in main / run_build
    \* run_build()
    steps,           \* get_steps(config): sequence of step classes
    status,          \* status[i]: the status field of steps[i]
    step_results,    \* list of (name, status) tuples
    current_step,
    success,
    summary,         \* the ui.print_summary calls made, each with its arguments
    retval,          \* run_build's return value, as a list: empty until it returns
    \* observations of a run (the spy of the pipeline)
    invoked,         \* indices of the steps whose execute was invoked, in order
    exec_outcome,    \* how each of those invocations ended
    ui_raised,       \* whether some call on the ui raised
    log_errors,      \* the ui.log_error calls made by run_build, in order
    \* StapleStep.execute()
    st_pc,           \* position in StapleStep.execute
    attempt,         \* loop variable of the retry loop
    returncodes,     \* exit code of every stapler invocation, in order
    sleeps,          \* the asyncio.sleep calls made, in order
    st_output,       \* what was passed to on_output, in order
    st_error,        \* the BuildStepError raised by execute, as a list of at most one
    \* XcodeConvertStep: the fix-ups of project.pbxproj
    pbxproj,         \* content of project.pbxproj, a sequence of pieces of text
    fix_pc,          \* position in the sequence of fix-ups
    fix_runs,        \* how many times the pair of fix-ups was applied
    pbx_once,        \* the content after the first application, as a list
    \* ProcessRunner.run and the child process
    p_mode,          \* "pty" or "simple" (self.use_pty)
    p_sink,          \* whether on_output is supplied
    p_pc,            \* position in _run_with_pty / _run_simple
    child_todo,      \* bytes the child has still to write
    child_exited,    \* whether the child has exited
    pipe,            \* bytes in the kernel buffer between the child and run
    p_buf,           \* bytes in the buffer of the StreamReader process.stdout
    written,         \* all bytes the child wrote so far
    delivered,       \* the chunks passed to on_output, in order
    in_flight,       \* number of on_output calls that have not returned
    p_ret,           \* run's return value, as a list: empty until it returns
    \* OutputProcessor
    current_line,    \* self.current_line, a sequence of characters
    op_calls,        \* the calls made on the processor, in order, each with its
                     \* argument and return value
    op_prev,         \* current_line before the last call
    \* execute() of a single step
    x_pc,            \* position in execute
    x_env,           \* what the tools and the file system answer, drawn up front
    x_spawned,       \* the processes execute started, in order
    x_output,        \* what was passed to on_output, in order
    x_checks,        \* the checks execute performed, in order
    x_error,         \* the BuildStepError raised by execute, as a list of at most one
    image,           \* the disk image at config.output_path, as a list: empty when
                     \* there is none
    \* BuildLogger and the log directory
    max_logs,        \* self.max_logs
    log_files,       \* the log directory: index of a log file |-> the build whose
                     \* transcript it holds
    builds,          \* how many builds called BuildLogger.start()
    log_pc,          \* position in start() / rotate_logs()
    log_i,           \* loop variable of rotate_logs
    log_lost,        \* the transcripts the rotation under way destroyed
    \* the two user interfaces, as run_build drives them
    simple_statuses, \* SimpleUI.step_statuses: list of (name, status)
    app_statuses,    \* BuildApp.step_statuses: list of statuses
    \* BuildApp: the buffer replayed to the terminal
    output_buffer,   \* self.output_buffer, in order
    mounted,         \* self._mounted
    terminal,        \* what on_unmount printed, in order
    \* the descriptors of a pty-mode run
    open_fds         \* the pseudo-terminal descriptors that are open

mainVars   == <<args, environ, app, pyproject_ok, app_exists, stdout_isatty,
                config, use_tui, exit_code, started, stderr>>
buildVars  == <<steps, status, step_results, current_step, success, summary, retval>>
spyVars    == <<invoked, exec_outcome, ui_raised, log_errors>>
stapleVars == <<st_pc, attempt, returncodes, sleeps, st_output, st_error>>
fixVars    == <<pbxproj, fix_pc, fix_runs, pbx_once>>
procVars   == <<p_mode, p_sink, p_pc, child_todo, child_exited, pipe, p_buf, written,
                delivered, in_flight, p_ret>>
outVars    == <<current_line, op_calls, op_prev>>
execVars   == <<x_pc, x_env, x_spawned, x_output, x_checks, x_error, image, open_fds>>
logVars    == <<max_logs, log_files, builds, log_pc, log_i, log_lost>>
uiVars     == <<simple_statuses, app_statuses>>
appVars    == <<output_buffer, mounted, terminal>>
nonUiVars  == <<fixVars, procVars, outVars, execVars, logVars, appVars>>
utilVars   == <<nonUiVars, uiVars>>
toolVars   == <<mainVars, pc, buildVars, spyVars, stapleVars>>
vars       == <<toolVars, utilVars>>

\* Python's None
None == "<None>"

\* Python truthiness of an optional string: None and "" are falsy
Falsy(s) == s = None \/ s = ""

\* ", ".join(xs)
RECURSIVE Join(_)
Join(xs) ==
    IF xs = <<>> THEN ""
    ELSE IF Len(xs) = 1 THEN xs[1]
    ELSE xs[1] \o ", " \o Join(Tail(xs))

(***************************************************************************)
(* steps/base.py: StepStatus                                               *)
(***************************************************************************)
PENDING == "pending"
RUNNING == "running"
SUCCESS == "success"
FAILED  == "failed"
SKIPPED == "skipped"
StepStatus == {PENDING, RUNNING, SUCCESS, FAILED, SKIPPED}

(***************************************************************************)
(* cli.py                                                                  *)
(***************************************************************************)
\* the namespaces parse_args can return: --rebuild-dmg and --appstore are
\* mutually exclusive, --dmg is the default
ParsedArgs ==
    {a \in [rebuild_dmg : BOOLEAN, appstore : BOOLEAN, signed : BOOLEAN, simple : BOOLEAN] :
        ~(a.rebuild_dmg /\ a.appstore)}

get_build_type(a) ==
    IF a.rebuild_dmg THEN "rebuild-dmg"
    ELSE IF a.appstore THEN "appstore"
    ELSE "dmg"

should_use_tui(a, isatty) ==
    IF a.simple THEN FALSE
    ELSE IF ~isatty THEN FALSE
    ELSE TRUE

(***************************************************************************)
(* config.py                                                               *)
(***************************************************************************)
BuildTypes == {"dmg", "rebuild-dmg", "appstore"}

\* os.environ as far as DeveloperConfig.from_env reads it (None: not set)
Environs ==
    [APPLE_DEVELOPER_NAME : {None, "Jane Dev"},
     APPLE_TEAM_ID : {None, "TEAM123"},
     APPLE_ID : {None, "", "jane@example.com"},
     APPLE_APP_SPECIFIC_PASSWORD : {None, "", "abcd-efgh"}]

\* os.environ.get(key, default)
EnvGet(env, key, default) == IF env[key] = None THEN default ELSE env[key]

DeveloperConfig_from_env(env) ==
    [name |-> EnvGet(env, "APPLE_DEVELOPER_NAME", ""),
     team_id |-> EnvGet(env, "APPLE_TEAM_ID", ""),
     apple_id |-> EnvGet(env, "APPLE_ID", None),
     app_specific_password |-> EnvGet(env, "APPLE_APP_SPECIFIC_PASSWORD", None)]

\* the [tool.build-safari] tables the model draws pyproject.toml from
AppConfigs ==
    {[app_name |-> "Stream Keys", build_dir |-> "build/production/safari"],
     [app_name |-> "Other App", build_dir |-> "out"]}

project_root == "/repo/apps/extension"

developer_id_app(dev) == "Developer ID Application: " \o dev.name \o " (" \o dev.team_id \o ")"

apple_distribution(dev) == "Apple Distribution: " \o dev.name \o " (" \o dev.team_id \o ")"

validate_for_signing(dev) ==
    (IF dev.name = "" THEN <<"APPLE_DEVELOPER_NAME">> ELSE <<>>)
    \o (IF dev.team_id = "" THEN <<"APPLE_TEAM_ID">> ELSE <<>>)

\* mutant: only an absent credential is reported, an empty one is not
validate_for_notarization_none_only(dev) ==
    validate_for_signing(dev)
    \o (IF dev.apple_id = None THEN <<"APPLE_ID">> ELSE <<>>)
    \o (IF dev.app_specific_password = None THEN <<"APPLE_APP_SPECIFIC_PASSWORD">> ELSE <<>>)

validate_for_notarization(dev) ==
    validate_for_signing(dev)
    \o (IF Falsy(dev.apple_id) THEN <<"APPLE_ID">> ELSE <<>>)
    \o (IF Falsy(dev.app_specific_password) THEN <<"APPLE_APP_SPECIFIC_PASSWORD">> ELSE <<>>)

\* mutant: the signed argument is dropped
load_config_unsigned(appcfg, env, build_type, signed) ==
    [app |-> appcfg,
     developer |-> DeveloperConfig_from_env(env),
     build_type |-> build_type,
     signed |-> FALSE,
     project_root |-> project_root]

load_config(appcfg, env, build_type, signed) ==
    [app |-> appcfg,
     developer |-> DeveloperConfig_from_env(env),
     build_type |-> build_type,
     signed |-> signed,
     project_root |-> project_root]

\* every BuildConfig value of the model's domains
BuildConfigs ==
    {load_config(a, e, bt, s) : a \in AppConfigs, e \in Environs, bt \in BuildTypes, s \in BOOLEAN}

build_dir(c) == c.project_root \o "/" \o c.app.build_dir

app_path(c) ==
    build_dir(c) \o "/xcode/DerivedData/Build/Products/Release/" \o c.app.app_name \o ".app"

\* mutant: the two file names are swapped
output_file_swapped(c) ==
    IF c.build_type = "appstore" THEN "stream-keys-safari.dmg"
    ELSE "stream-keys-safari-appstore.pkg"

output_file(c) ==
    IF c.build_type = "appstore" THEN "stream-keys-safari-appstore.pkg"
    ELSE "stream-keys-safari.dmg"

output_path(c) == build_dir(c) \o "/" \o output_file(c)

code_sign_identity(c) ==
    IF ~c.signed THEN "-"
    ELSE IF c.build_type = "appstore" THEN apple_distribution(c.developer)
    ELSE developer_id_app(c.developer)

total_steps(c) ==
    IF c.build_type = "rebuild-dmg" THEN (IF c.signed THEN 3 ELSE 1)
    ELSE IF c.build_type = "appstore" THEN 5
    ELSE (IF c.signed THEN 7 ELSE 4)

build_description(c) ==
    IF c.build_type = "rebuild-dmg"
    THEN (IF c.signed THEN "Rebuild DMG (signed)" ELSE "Rebuild DMG (unsigned)")
    ELSE IF c.build_type = "appstore" THEN "App Store Package"
    ELSE IF c.signed THEN "Signed + Notarized DMG"
    ELSE "Local DMG (unsigned)"

\* BuildConfig.validate; exists: whether app_path exists
validate(c, exists) ==
    LET missing ==
            IF c.build_type \in {"dmg", "rebuild-dmg"}
            THEN validate_for_notarization(c.developer)
            ELSE validate_for_signing(c.developer)
    IN  (IF c.signed /\ missing # <<>>
         THEN <<"Missing required environment variables: " \o Join(missing)>>
         ELSE <<>>)
        \o (IF c.build_type = "rebuild-dmg" /\ ~exists
            THEN <<"App not found at " \o app_path(c)>>
            ELSE <<>>)

(***************************************************************************)
(* steps/*.py: the step classes, their names and should_run predicates     *)
(***************************************************************************)
StepName(cls) ==
    CASE cls = "ViteBuildStep"        -> "Building Safari extension..."
      [] cls = "XcodeConvertStep"     -> "Converting to Xcode project..."
      [] cls = "XcodeBuildStep"       -> "Building app with Xcode..."
      [] cls = "RebuildDMGVerifyStep" -> "Verifying existing code signature..."
      [] cls = "SigningVerifyStep"    -> "Verifying code signature..."
      [] cls = "DMGCreateStep"        -> "Creating styled DMG..."
      [] cls = "NotarizeStep"         -> "Submitting for notarization..."
      [] cls = "StapleStep"           -> "Stapling notarization ticket..."
      [] cls = "AppStorePackageStep"  -> "Creating signed installer package..."

ViteBuildStep_should_run(c) == c.build_type # "rebuild-dmg"

XcodeConvertStep_should_run(c) == c.build_type # "rebuild-dmg"

XcodeBuildStep_should_run(c) == c.build_type # "rebuild-dmg"

RebuildDMGVerifyStep_should_run(c) == c.signed /\ c.build_type = "rebuild-dmg"

SigningVerifyStep_should_run(c) == c.signed /\ c.build_type # "rebuild-dmg"

\* mutant: the rebuild of the disk image is forgotten
DMGCreateStep_should_run_dmg_only(c) == c.build_type = "dmg"

DMGCreateStep_should_run(c) == c.build_type \in {"dmg", "rebuild-dmg"}

\* mutant: notarization is selected only when the credentials are present
NotarizeStep_should_run_creds(c) ==
    c.signed /\ c.build_type \in {"dmg", "rebuild-dmg"} /\ ~Falsy(c.developer.apple_id)

NotarizeStep_should_run(c) == c.signed /\ c.build_type \in {"dmg", "rebuild-dmg"}

StapleStep_should_run(c) == c.signed /\ c.build_type \in {"dmg", "rebuild-dmg"}

AppStorePackageStep_should_run(c) == c.build_type = "appstore"

should_run(cls, c) ==
    CASE cls = "ViteBuildStep"        -> ViteBuildStep_should_run(c)
      [] cls = "XcodeConvertStep"     -> XcodeConvertStep_should_run(c)
      [] cls = "XcodeBuildStep"       -> XcodeBuildStep_should_run(c)
      [] cls = "RebuildDMGVerifyStep" -> RebuildDMGVerifyStep_should_run(c)
      [] cls = "SigningVerifyStep"    -> SigningVerifyStep_should_run(c)
      [] cls = "DMGCreateStep"        -> DMGCreateStep_should_run(c)
      [] cls = "NotarizeStep"         -> NotarizeStep_should_run(c)
      [] cls = "StapleStep"           -> StapleStep_should_run(c)
      [] cls = "AppStorePackageStep"  -> AppStorePackageStep_should_run(c)

(***************************************************************************)
(* runner.py: get_steps                                                    *)
(***************************************************************************)
\* mutant: notarization is listed before the assembly of the image
all_steps_notarize_first ==
    <<"ViteBuildStep", "XcodeConvertStep", "XcodeBuildStep", "RebuildDMGVerifyStep",
      "SigningVerifyStep", "NotarizeStep", "DMGCreateStep", "StapleStep",
      "AppStorePackageStep">>

all_steps ==
    <<"ViteBuildStep", "XcodeConvertStep", "XcodeBuildStep", "RebuildDMGVerifyStep",
      "SigningVerifyStep", "DMGCreateStep", "NotarizeStep", "StapleStep",
      "AppStorePackageStep">>

get_steps(c) == SelectSeq(all_steps, LAMBDA cls : should_run(cls, c))

(***************************************************************************)
(* __main__.py: main                                                       *)
(***************************************************************************)
\* the fix-ups of XcodeConvertStep when they are not in use
FixIdle ==
    /\ pbxproj = <<>>
    /\ fix_pc = "idle"
    /\ fix_runs = 0
    /\ pbx_once = <<>>

\* no ProcessRunner.run is under way
ProcIdle ==
    /\ p_mode = None
    /\ p_sink = FALSE
    /\ p_pc = "idle"
    /\ child_todo = <<>>
    /\ child_exited = FALSE
    /\ pipe = <<>>
    /\ p_buf = <<>>
    /\ written = <<>>
    /\ delivered = <<>>
    /\ in_flight = 0
    /\ p_ret = <<>>

\* no OutputProcessor is in use
OutIdle ==
    /\ current_line = <<>>
    /\ op_calls = <<>>
    /\ op_prev = <<>>

\* no execute of a single step is under way
ExecIdle ==
    /\ x_pc = "idle"
    /\ x_env = None
    /\ x_spawned = <<>>
    /\ x_output = <<>>
    /\ x_checks = <<>>
    /\ x_error = <<>>
    /\ image = <<>>
    /\ open_fds = {}

\* neither user interface is in use
UiIdle ==
    /\ simple_statuses = <<>>
    /\ app_statuses = <<>>

\* no BuildApp replays its buffer
AppIdle ==
    /\ output_buffer = <<>>
    /\ mounted = FALSE
    /\ terminal = <<>>

\* no BuildLogger is in use
LogIdle ==
    /\ max_logs = 0
    /\ log_files = <<>>
    /\ builds = 0
    /\ log_pc = "idle"
    /\ log_i = 0
    /\ log_lost = {}

UtilIdle == FixIdle /\ ProcIdle /\ OutIdle /\ ExecIdle /\ LogIdle /\ UiIdle /\ AppIdle

\* the variables of run_build, its spy and StapleStep before anything ran
Idle ==
    /\ steps = <<>>
    /\ status = <<>>
    /\ step_results = <<>>
    /\ current_step = 0
    /\ success = TRUE
    /\ summary = <<>>
    /\ retval = <<>>
    /\ invoked = <<>>
    /\ exec_outcome = <<>>
    /\ ui_raised = FALSE
    /\ log_errors = <<>>
    /\ st_pc = "idle"
    /\ attempt = 0
    /\ returncodes = <<>>
    /\ sleeps = <<>>
    /\ st_output = <<>>
    /\ st_error = <<>>

\* main is not running: the state of the tool's variables while one of its
\* components is exercised on its own
ToolIdle ==
    /\ args = None
    /\ environ = None
    /\ app = None
    /\ pyproject_ok = TRUE
    /\ app_exists = TRUE
    /\ stdout_isatty = TRUE
    /\ config = None
    /\ use_tui = None
    /\ exit_code = <<>>
    /\ started = <<>>
    /\ stderr = <<>>
    /\ pc = "idle"
    /\ Idle

\* the text of the exception load_config raises in the model
LoadErrorText == "cannot read pyproject.toml"

\* the tool is started: any command line, environment and project state
Init ==
    /\ args \in ParsedArgs
    /\ environ \in Environs
    /\ app \in AppConfigs
    /\ pyproject_ok \in BOOLEAN
    /\ app_exists \in BOOLEAN
    /\ stdout_isatty \in BOOLEAN
    /\ config = None
    /\ use_tui = None
    /\ exit_code = <<>>
    /\ started = <<>>
    /\ stderr = <<>>
    /\ pc = "main"
    /\ Idle
    /\ UtilIdle

\* ui/simple.py lines 79 and 88-90, ui/app.py lines 198 and 215-218: what
\* the two user interfaces record
simple_log_step(statuses, step_name) == Append(statuses, <<step_name, RUNNING>>)

simple_update_step_status(statuses, step_num, new_status) ==
    IF 0 < step_num /\ step_num <= Len(statuses)
    THEN [statuses EXCEPT ![step_num] = <<statuses[step_num][1], new_status>>]
    ELSE statuses

app_update_step_status(statuses, step_num, new_status) ==
    IF step_num < 1 \/ step_num > Len(statuses)
    THEN statuses
    ELSE [statuses EXCEPT ![step_num] = new_status]

\* __main__.py lines 76-112 and 137: the user interfaces as main constructs
\* them for configuration c; BuildApp gets total_steps = len(get_steps(c))
ConstructUi(c) ==
    /\ simple_statuses' = <<>>
    /\ app_statuses' = [i \in 1..Len(get_steps(c)) |-> PENDING]

\* ui.log_step(current_step, len(steps), step.name) returns
NotifyLogStep ==
    /\ simple_statuses' = simple_log_step(simple_statuses, StepName(steps[current_step]))
    /\ app_statuses' = app_update_step_status(app_statuses, current_step, RUNNING)

\* ui.update_step_status(current_step, new_status) returns
NotifyStatus(new_status) ==
    /\ simple_statuses' = simple_update_step_status(simple_statuses, current_step, new_status)
    /\ app_statuses' = app_update_step_status(app_statuses, current_step, new_status)

\* main without the return of lines 46-50
Main_no_validation ==
    /\ pc = "main"
    /\ LET build_type == get_build_type(args)
           signed == args.signed \/ build_type = "appstore"
       IN  IF ~pyproject_ok
           THEN /\ stderr' = <<"Error loading configuration: " \o LoadErrorText>>
                /\ exit_code' = <<1>>
                /\ pc' = "exit"
                /\ UNCHANGED uiVars
                /\ UNCHANGED <<config, use_tui, started>>
           ELSE LET c == load_config(app, environ, build_type, signed)
                IN  /\ config' = c
                    /\ use_tui' = should_use_tui(args, stdout_isatty)
                    /\ started' = <<"logger.start",
                           IF should_use_tui(args, stdout_isatty)
                           THEN "BuildApp" ELSE "SimpleUI">>
                    /\ pc' = "run_build"
                    /\ ConstructUi(c)
                    /\ UNCHANGED <<exit_code, stderr>>
    /\ UNCHANGED <<args, environ, app, pyproject_ok, app_exists, stdout_isatty>>
    /\ UNCHANGED <<buildVars, spyVars, stapleVars, nonUiVars>>

\* main, from parse_args to the call of run_build: load_config raising and a
\* non-empty validate() both print to sys.stderr and return 1; otherwise
\* run_with_tui / run_with_simple_ui start the logger and construct the ui
\* (the ANSI colour codes of the messages are left out)
Main ==
    /\ pc = "main"
    /\ LET build_type == get_build_type(args)
           signed == args.signed \/ build_type = "appstore"
       IN  IF ~pyproject_ok
           THEN /\ stderr' = <<"Error loading configuration: " \o LoadErrorText>>
                /\ UNCHANGED uiVars
                /\ exit_code' = <<1>>
                /\ pc' = "exit"
                /\ UNCHANGED <<config, use_tui, started>>
           ELSE LET c == load_config(app, environ, build_type, signed)
                    errors == validate(c, app_exists)
                IN  /\ config' = c
                    /\ IF errors # <<>>
                       THEN /\ stderr' = <<"Configuration errors:">> \o
                                    [i \in 1..Len(errors) |-> "  - " \o errors[i]]
                            /\ exit_code' = <<1>>
                            /\ pc' = "exit"
                            /\ UNCHANGED uiVars
                            /\ UNCHANGED <<use_tui, started>>
                       ELSE /\ use_tui' = should_use_tui(args, stdout_isatty)
                            /\ started' = <<"logger.start",
                                   IF should_use_tui(args, stdout_isatty)
                                   THEN "BuildApp" ELSE "SimpleUI">>
                            /\ pc' = "run_build"
                            /\ ConstructUi(c)
                            /\ UNCHANGED <<exit_code, stderr>>
    /\ UNCHANGED <<args, environ, app, pyproject_ok, app_exists, stdout_isatty>>
    /\ UNCHANGED <<buildVars, spyVars, stapleVars, nonUiVars>>

(***************************************************************************)
(* runner.py: run_build, one action per stretch of code between awaits     *)
(***************************************************************************)
\* the text of an exception that is not a BuildStepError
ExcText == "boom"

\* str(e) of the BuildStepError a step raises: f"{step_name}: {message}"
BuildStepErrorStr(cls) == StepName(cls) \o ": " \o "command failed"

\* lines 52-57: the step list and the locals of run_build
RunBuild ==
    /\ pc = "run_build"
    /\ steps' = get_steps(config)
    /\ status' = [i \in 1..Len(get_steps(config)) |-> PENDING]
    /\ step_results' = <<>>
    /\ current_step' = 0
    /\ success' = TRUE
    /\ pc' = "loop"
    /\ UNCHANGED <<mainVars, summary, retval, spyVars, stapleVars, utilVars>>

\* mutant: the slice starts one step late (steps[current_step + 1:])
MarkRemaining_late(results, cur) ==
    results \o [j \in 1..(Len(steps) - cur - 1) |-> <<StepName(steps[cur + 1 + j]), PENDING>>]

\* lines 81-83: for step in steps[current_step:]: append (name, PENDING)
MarkRemaining(results, cur) ==
    results \o [j \in 1..(Len(steps) - cur) |-> <<StepName(steps[cur + j]), PENDING>>]

\* lines 85-90: the except Exception clause up to its await. Sets log_errors,
\* success, status, ui_raised and pc. ui: the exception came out of a ui call.
ExceptException(text, ui) ==
    \/ \* ui.log_error returns
       /\ log_errors' = Append(log_errors, "Unexpected error: " \o text)
       /\ ui_raised' = (ui_raised \/ ui)
       /\ success' = FALSE
       /\ IF current_step > 0 /\ current_step <= Len(steps)
          THEN /\ status' = [status EXCEPT ![current_step] = FAILED]
               /\ pc' = "handler_update"
          ELSE /\ status' = status
               /\ pc' = "print_summary"
    \/ \* ui.log_error raises: the exception leaves run_build
       /\ ui_raised' = TRUE
       /\ pc' = "crashed"
       /\ UNCHANGED <<log_errors, success, status>>

\* lines 60-62, and lines 81-83 when the loop is exhausted
LoopNext ==
    /\ pc = "loop"
    /\ IF current_step < Len(steps)
       THEN /\ current_step' = current_step + 1
            /\ status' = [status EXCEPT ![current_step + 1] = RUNNING]
            /\ pc' = "log_step"
            /\ UNCHANGED step_results
       ELSE /\ step_results' = MarkRemaining(step_results, current_step)
            /\ pc' = "print_summary"
            /\ UNCHANGED <<current_step, status>>
    /\ UNCHANGED <<mainVars, steps, success, summary, retval, spyVars, stapleVars, utilVars>>

\* line 64: await ui.log_step(i, len(steps), step.name)
LogStep ==
    /\ pc = "log_step"
    /\ \/ /\ pc' = "update_running"
          /\ NotifyLogStep
          /\ UNCHANGED <<status, success, log_errors, ui_raised>>
       \/ /\ ExceptException("ui failed", TRUE)
          /\ UNCHANGED uiVars
    /\ UNCHANGED <<mainVars, steps, step_results, current_step, summary, retval,
                   invoked, exec_outcome, stapleVars, nonUiVars>>

\* line 65: await ui.update_step_status(i, StepStatus.RUNNING)
UpdateRunning ==
    /\ pc = "update_running"
    /\ \/ /\ pc' = "execute"
          /\ NotifyStatus(RUNNING)
          /\ UNCHANGED <<status, success, log_errors, ui_raised>>
       \/ /\ ExceptException("ui failed", TRUE)
          /\ UNCHANGED uiVars
    /\ UNCHANGED <<mainVars, steps, step_results, current_step, summary, retval,
                   invoked, exec_outcome, stapleVars, nonUiVars>>

\* lines 68-69 and 73-74: await step.execute(...), which returns, raises
\* BuildStepError or raises something else
Execute ==
    /\ pc = "execute"
    /\ invoked' = Append(invoked, current_step)
    /\ \/ /\ exec_outcome' = Append(exec_outcome, "ok")
          /\ status' = [status EXCEPT ![current_step] = SUCCESS]
          /\ pc' = "update_success"
          /\ UNCHANGED <<success, log_errors, ui_raised>>
       \/ /\ exec_outcome' = Append(exec_outcome, "BuildStepError")
          /\ status' = [status EXCEPT ![current_step] = FAILED]
          /\ pc' = "update_failed"
          /\ UNCHANGED <<success, log_errors, ui_raised>>
       \/ /\ exec_outcome' = Append(exec_outcome, "Exception")
          /\ ExceptException(ExcText, FALSE)
    /\ UNCHANGED <<mainVars, steps, step_results, current_step, summary, retval, stapleVars, utilVars>>

\* lines 70-71: await ui.update_step_status(i, SUCCESS); step_results.append
UpdateSuccess ==
    /\ pc = "update_success"
    /\ \/ /\ step_results' = Append(step_results, <<StepName(steps[current_step]), SUCCESS>>)
          /\ pc' = "loop"
          /\ NotifyStatus(SUCCESS)
          /\ UNCHANGED <<status, success, log_errors, ui_raised>>
       \/ /\ ExceptException("ui failed", TRUE)
          /\ UNCHANGED step_results
          /\ UNCHANGED uiVars
    /\ UNCHANGED <<mainVars, steps, current_step, summary, retval,
                   invoked, exec_outcome, stapleVars, nonUiVars>>

\* mutant: the break after a failed step is missing
UpdateFailed_no_break ==
    /\ pc = "update_failed"
    /\ \/ /\ log_errors' = Append(log_errors, BuildStepErrorStr(steps[current_step]))
          /\ step_results' = Append(step_results, <<StepName(steps[current_step]), FAILED>>)
          /\ success' = FALSE
          /\ pc' = "loop"
          /\ NotifyStatus(FAILED)
          /\ UNCHANGED <<status, ui_raised>>
       \/ /\ ExceptException("ui failed", TRUE)
          /\ UNCHANGED step_results
          /\ \/ UNCHANGED uiVars
             \/ NotifyStatus(FAILED)
    /\ UNCHANGED <<mainVars, steps, current_step, summary, retval,
                   invoked, exec_outcome, stapleVars, nonUiVars>>

\* mutant: success stays True after a step failed
UpdateFailed_keeps_success ==
    /\ pc = "update_failed"
    /\ \/ /\ log_errors' = Append(log_errors, BuildStepErrorStr(steps[current_step]))
          /\ step_results' =
                MarkRemaining(Append(step_results, <<StepName(steps[current_step]), FAILED>>),
                              current_step)
          /\ pc' = "print_summary"
          /\ NotifyStatus(FAILED)
          /\ UNCHANGED <<status, ui_raised, success>>
       \/ /\ ExceptException("ui failed", TRUE)
          /\ UNCHANGED step_results
          /\ \/ UNCHANGED uiVars
             \/ NotifyStatus(FAILED)
    /\ UNCHANGED <<mainVars, steps, current_step, summary, retval,
                   invoked, exec_outcome, stapleVars, nonUiVars>>

\* mutant: the failure of a step is recorded but not reported
UpdateFailed_silent ==
    /\ pc = "update_failed"
    /\ \/ /\ step_results' =
                MarkRemaining(Append(step_results, <<StepName(steps[current_step]), FAILED>>),
                              current_step)
          /\ success' = FALSE
          /\ pc' = "print_summary"
          /\ NotifyStatus(FAILED)
          /\ UNCHANGED <<status, ui_raised, log_errors>>
       \/ /\ ExceptException("ui failed", TRUE)
          /\ UNCHANGED step_results
          /\ \/ UNCHANGED uiVars
             \/ NotifyStatus(FAILED)
    /\ UNCHANGED <<mainVars, steps, current_step, summary, retval,
                   invoked, exec_outcome, stapleVars, nonUiVars>>

\* lines 75-79 and 81-83: await ui.update_step_status(i, FAILED);
\* ui.log_error(str(e)); step_results.append; success = False; break
UpdateFailed ==
    /\ pc = "update_failed"
    /\ \/ /\ log_errors' = Append(log_errors, BuildStepErrorStr(steps[current_step]))
          /\ step_results' =
                MarkRemaining(Append(step_results, <<StepName(steps[current_step]), FAILED>>),
                              current_step)
          /\ success' = FALSE
          /\ pc' = "print_summary"
          /\ NotifyStatus(FAILED)
          /\ UNCHANGED <<status, ui_raised>>
       \/ \* update_step_status or log_error raises
          /\ ExceptException("ui failed", TRUE)
          /\ UNCHANGED step_results
          /\ \/ UNCHANGED uiVars
             \/ NotifyStatus(FAILED)
    /\ UNCHANGED <<mainVars, steps, current_step, summary, retval,
                   invoked, exec_outcome, stapleVars, nonUiVars>>

\* mutant: the handler records nothing for the step in flight
HandlerUpdate_no_record ==
    /\ pc = "handler_update"
    /\ \/ /\ pc' = "print_summary"
          /\ NotifyStatus(FAILED)
          /\ UNCHANGED <<ui_raised, step_results>>
       \/ /\ ui_raised' = TRUE
          /\ pc' = "crashed"
          /\ UNCHANGED uiVars
          /\ UNCHANGED step_results
    /\ UNCHANGED <<mainVars, steps, status, current_step, success, summary, retval,
                   invoked, exec_outcome, log_errors, stapleVars, nonUiVars>>

\* lines 91-98: await ui.update_step_status(current_step, FAILED), then the
\* failed entry is appended to, or written into, step_results
HandlerUpdate ==
    /\ pc = "handler_update"
    /\ \/ /\ step_results' =
                IF Len(step_results) < current_step
                THEN Append(step_results, <<StepName(steps[current_step]), FAILED>>)
                ELSE [step_results EXCEPT ![current_step] =
                          <<StepName(steps[current_step]), FAILED>>]
          /\ pc' = "print_summary"
          /\ NotifyStatus(FAILED)
          /\ UNCHANGED ui_raised
       \/ \* the notification raises inside the handler: nothing catches it
          /\ ui_raised' = TRUE
          /\ pc' = "crashed"
          /\ UNCHANGED uiVars
          /\ UNCHANGED step_results
    /\ UNCHANGED <<mainVars, steps, status, current_step, success, summary, retval,
                   invoked, exec_outcome, log_errors, stapleVars, nonUiVars>>

\* ui/simple.py lines 153-164, ui/app.py lines 358-365: what print_summary
\* prints below the list of steps, for the arguments of a call (the ANSI
\* colour codes are left out)
print_summary_tail_always(call) ==
    <<IF call.success THEN "=== Build Complete ===" ELSE "=== Build Failed ===">>
        \o (IF ~Falsy(call.output_path) THEN <<"Output: " \o call.output_path>> ELSE <<>>)
        \o (IF ~Falsy(call.build_description)
            THEN <<"Build type: " \o call.build_description>> ELSE <<>>)

print_summary_tail(call) ==
    IF call.success
    THEN <<"=== Build Complete ===">>
             \o (IF ~Falsy(call.output_path) THEN <<"Output: " \o call.output_path>> ELSE <<>>)
             \o (IF ~Falsy(call.build_description)
                 THEN <<"Build type: " \o call.build_description>> ELSE <<>>)
    ELSE <<"=== Build Failed ===">>

\* lines 101-108: ui.print_summary(...); return success
PrintSummary ==
    /\ pc = "print_summary"
    /\ \/ /\ summary' = Append(summary,
                            [steps |-> step_results,
                             success |-> success,
                             output_path |-> IF success THEN output_path(config) ELSE None,
                             build_description |-> build_description(config)])
          /\ retval' = <<success>>
          /\ pc' = "done"
          /\ UNCHANGED ui_raised
       \/ /\ ui_raised' = TRUE
          /\ pc' = "crashed"
          /\ UNCHANGED <<summary, retval>>
    /\ UNCHANGED <<mainVars, steps, status, step_results, current_step, success,
                   invoked, exec_outcome, log_errors, stapleVars, utilVars>>

\* main with an exit code that ignores what run_build returned
MainReturn_ignores_result ==
    /\ pc \in {"done", "crashed"}
    /\ exit_code' = <<0>>
    /\ pc' = "exit"
    /\ UNCHANGED <<args, environ, app, pyproject_ok, app_exists, stdout_isatty, config, use_tui,
                   started, stderr>>
    /\ UNCHANGED <<buildVars, spyVars, stapleVars, utilVars>>

\* __main__.py lines 99-104 and 119 (TUI), 145-150 (simple ui): the exit code
\* after run_build. An exception that left run_build is caught by do_build
\* in TUI mode; with the simple ui it leaves main and the interpreter exits
\* with code 1.
MainReturn ==
    /\ pc \in {"done", "crashed"}
    /\ exit_code' = IF pc = "done" /\ retval[1] THEN <<0>> ELSE <<1>>
    /\ pc' = "exit"
    /\ UNCHANGED <<args, environ, app, pyproject_ok, app_exists, stdout_isatty, config, use_tui,
                   started, stderr>>
    /\ UNCHANGED <<buildVars, spyVars, stapleVars, utilVars>>

Next ==
    \/ Main
    \/ RunBuild
    \/ LoopNext
    \/ LogStep
    \/ UpdateRunning
    \/ Execute
    \/ UpdateSuccess
    \/ UpdateFailed
    \/ HandlerUpdate
    \/ PrintSummary
    \/ MainReturn

Spec == Init /\ [][Next]_vars

(***************************************************************************)
(* steps/notarize.py: StapleStep.execute                                   *)
(***************************************************************************)
MAX_RETRIES == 5

RETRY_DELAY == 15

\* the largest exit code the stapler returns in the model
MaxExitCode == 2

\* StapleStep.execute is called for a valid configuration that selects it
InitStaple ==
    /\ config \in {c \in BuildConfigs : StapleStep_should_run(c) /\ validate(c, TRUE) = <<>>}
    /\ args = None
    /\ environ = None
    /\ app = config.app
    /\ pyproject_ok = TRUE
    /\ app_exists = TRUE
    /\ stdout_isatty = TRUE
    /\ use_tui = None
    /\ exit_code = <<>>
    /\ started = <<>>
    /\ stderr = <<>>
    /\ pc = "staple"
    /\ UtilIdle
    /\ steps = <<>>
    /\ status = <<>>
    /\ step_results = <<>>
    /\ current_step = 0
    /\ success = TRUE
    /\ summary = <<>>
    /\ retval = <<>>
    /\ invoked = <<>>
    /\ exec_outcome = <<>>
    /\ ui_raised = FALSE
    /\ log_errors = <<>>
    /\ st_pc = "start"
    /\ attempt = 0
    /\ returncodes = <<>>
    /\ sleeps = <<>>
    /\ st_output = <<>>
    /\ st_error = <<>>

\* lines 116-118: the first message; the await of line 119 follows
\* (the ANSI colour codes of the messages are left out)
StapleBegin ==
    /\ st_pc = "start"
    /\ st_output' = Append(st_output,
           "Waiting " \o ToString(RETRY_DELAY) \o "s for notarization ticket to propagate...")
    /\ st_pc' = "sleep"
    /\ UNCHANGED <<attempt, returncodes, sleeps, st_error>>
    /\ UNCHANGED <<mainVars, pc, buildVars, spyVars, utilVars>>

\* mutant: the delay grows with the attempt number
StapleSleep_backoff ==
    /\ st_pc = "sleep"
    /\ sleeps' = Append(sleeps, [seconds |-> RETRY_DELAY * (attempt + 1),
                                 after_attempt |-> attempt])
    /\ attempt' = attempt + 1
    /\ st_pc' = "attempt"
    /\ UNCHANGED <<returncodes, st_output, st_error>>
    /\ UNCHANGED <<mainVars, pc, buildVars, spyVars, utilVars>>

\* lines 119 and 141: await asyncio.sleep(RETRY_DELAY), after which the loop
\* of line 121 takes its next value
StapleSleep ==
    /\ st_pc = "sleep"
    /\ sleeps' = Append(sleeps, [seconds |-> RETRY_DELAY, after_attempt |-> attempt])
    /\ attempt' = attempt + 1
    /\ st_pc' = "attempt"
    /\ UNCHANGED <<returncodes, st_output, st_error>>
    /\ UNCHANGED <<mainVars, pc, buildVars, spyVars, utilVars>>

\* mutant: the return after a successful staple is missing
StapleAttempt_no_return ==
    /\ st_pc = "attempt"
    /\ attempt <= MAX_RETRIES
    /\ \E rc \in 0..MaxExitCode :
        /\ returncodes' = Append(returncodes, rc)
        /\ IF attempt < MAX_RETRIES
           THEN /\ st_output' = Append(st_output,
                       IF rc = 0 THEN "Stapling successful!" ELSE "Stapling failed")
                /\ st_pc' = "sleep"
                /\ UNCHANGED st_error
           ELSE /\ st_output' = Append(st_output, "stapler output")
                /\ st_error' = <<[step_name |-> StepName("StapleStep"), exit_code |-> rc]>>
                /\ st_pc' = "raised"
    /\ UNCHANGED <<attempt, sleeps>>
    /\ UNCHANGED <<mainVars, pc, buildVars, spyVars, utilVars>>

\* mutant: the retry test is off by one (attempt < MAX_RETRIES - 1)
StapleAttempt_off_by_one ==
    /\ st_pc = "attempt"
    /\ \E rc \in 0..MaxExitCode :
        /\ returncodes' = Append(returncodes, rc)
        /\ IF rc = 0
           THEN /\ st_output' = Append(st_output, "Stapling successful!")
                /\ st_pc' = "returned"
                /\ UNCHANGED st_error
           ELSE IF attempt < MAX_RETRIES - 1
           THEN /\ st_output' = Append(st_output, "Stapling failed")
                /\ st_pc' = "sleep"
                /\ UNCHANGED st_error
           ELSE /\ st_output' = Append(st_output, "stapler output")
                /\ st_error' = <<[step_name |-> StepName("StapleStep"), exit_code |-> rc]>>
                /\ st_pc' = "raised"
    /\ UNCHANGED <<attempt, sleeps>>
    /\ UNCHANGED <<mainVars, pc, buildVars, spyVars, utilVars>>

\* mutant: one retry more than MAX_RETRIES (attempt <= MAX_RETRIES)
StapleAttempt_one_more ==
    /\ st_pc = "attempt"
    /\ \E rc \in 0..MaxExitCode :
        /\ returncodes' = Append(returncodes, rc)
        /\ IF rc = 0
           THEN /\ st_output' = Append(st_output, "Stapling successful!")
                /\ st_pc' = "returned"
                /\ UNCHANGED st_error
           ELSE IF attempt <= MAX_RETRIES
           THEN /\ st_output' = Append(st_output, "Stapling failed")
                /\ st_pc' = "sleep"
                /\ UNCHANGED st_error
           ELSE /\ st_output' = Append(st_output, "stapler output")
                /\ st_error' = <<[step_name |-> StepName("StapleStep"), exit_code |-> rc]>>
                /\ st_pc' = "raised"
    /\ UNCHANGED <<attempt, sleeps>>
    /\ UNCHANGED <<mainVars, pc, buildVars, spyVars, utilVars>>

\* lines 122-148: one stapler invocation and what follows its exit code:
\* return, the retry message before the sleep of line 141, or BuildStepError
StapleAttempt ==
    /\ st_pc = "attempt"
    /\ \E rc \in 0..MaxExitCode :
        /\ returncodes' = Append(returncodes, rc)
        /\ IF rc = 0
           THEN /\ st_output' = Append(st_output, "Stapling successful!")
                /\ st_pc' = "returned"
                /\ UNCHANGED st_error
           ELSE IF attempt < MAX_RETRIES
           THEN /\ st_output' = Append(st_output,
                       "Stapling failed (attempt " \o ToString(attempt) \o "/"
                           \o ToString(MAX_RETRIES) \o "). Waiting " \o ToString(RETRY_DELAY)
                           \o "s for ticket propagation...")
                /\ st_pc' = "sleep"
                /\ UNCHANGED st_error
           ELSE /\ st_output' = Append(st_output, "stapler output")
                /\ st_error' =
                       <<[step_name |-> StepName("StapleStep"),
                          message |-> "Stapling failed after " \o ToString(MAX_RETRIES)
                                          \o " attempts",
                          exit_code |-> rc]>>
                /\ st_pc' = "raised"
    /\ UNCHANGED <<attempt, sleeps>>
    /\ UNCHANGED <<mainVars, pc, buildVars, spyVars, utilVars>>

NextStaple ==
    \/ StapleBegin
    \/ StapleSleep
    \/ StapleAttempt

SpecStaple == InitStaple /\ [][NextStaple]_vars

\* the same, when every await of execute eventually completes: the sleeps
\* end and each stapler invocation terminates
SpecStapleFair == SpecStaple /\ WF_vars(NextStaple)

(***************************************************************************)
(* Properties of run_build and get_steps                                   *)
(***************************************************************************)
Last(xs) == xs[Len(xs)]

\* the sequence 1, 2, ..., k
UpTo(k) == [i \in 1..k |-> i]

\* run_build has returned (to main)
Returned == retval # <<>>

\* the summary of a run that failed at step k of the selected steps
FailedAt(k) ==
    [i \in 1..Len(steps) |->
        <<StepName(steps[i]), IF i < k THEN SUCCESS ELSE IF i = k THEN FAILED ELSE PENDING>>]

\* C1: when steps 1..k-1 succeed and step k raises BuildStepError (and the ui
\* calls return), execute was invoked on steps 1..k in order and on no later
\* step, print_summary gets n entries in pipeline order (k-1 SUCCESS, FAILED,
\* n-k PENDING) and run_build returns False.
C1_StepFailureHalts ==
    (exec_outcome # <<>> /\ Last(exec_outcome) = "BuildStepError" /\ ~ui_raised) =>
        LET k == Len(exec_outcome)
        IN  /\ invoked = UpTo(k)
            /\ \A i \in 1..(k - 1) : exec_outcome[i] = "ok"
            /\ \A i \in (k + 1)..Len(steps) : status[i] = PENDING
            /\ pc \in {"update_failed", "print_summary", "done", "exit"}
            /\ pc \in {"done", "exit"} =>
                /\ Len(summary) = 1
                /\ summary[1].steps = FailedAt(k)
                /\ retval = <<FALSE>>

\* a run that failed in the middle of a pipeline and printed its summary
C1_Witness ==
    /\ Returned
    /\ ~ui_raised
    /\ Last(exec_outcome) = "BuildStepError"
    /\ Len(exec_outcome) > 1
    /\ Len(exec_outcome) < Len(steps)
    /\ summary[1].steps = FailedAt(Len(exec_outcome))

\* C2: however the run ends, the list given to print_summary has one entry
\* for every selected step, in pipeline order.
C2_SummaryCoversAllSteps ==
    summary # <<>> =>
        /\ Len(summary[1].steps) = Len(steps)
        /\ \A i \in 1..Len(steps) : summary[1].steps[i][1] = StepName(steps[i])

\* C3: when execute of step k raises an exception that is no BuildStepError
\* (and the ui calls return), run_build logs one generic "Unexpected error"
\* message, sets step k FAILED, records (step k, FAILED), invokes no later
\* step, calls print_summary and returns False.
C3_UnexpectedFailure ==
    (exec_outcome # <<>> /\ Last(exec_outcome) = "Exception" /\ ~ui_raised) =>
        LET k == Len(exec_outcome)
        IN  /\ invoked = UpTo(k)
            /\ \A i \in (k + 1)..Len(steps) : status[i] = PENDING
            /\ log_errors = <<"Unexpected error: " \o ExcText>>
            /\ status[k] = FAILED
            /\ success = FALSE
            /\ pc \in {"handler_update", "print_summary", "done", "exit"}
            /\ pc = "handler_update" => ENABLED HandlerUpdate
            /\ pc = "print_summary" => ENABLED PrintSummary
            /\ pc \in {"print_summary", "done", "exit"} =>
                /\ Len(step_results) = k
                /\ step_results[k] = <<StepName(steps[k]), FAILED>>
            /\ pc \in {"done", "exit"} =>
                /\ Len(summary) = 1
                /\ summary[1].steps[k] = <<StepName(steps[k]), FAILED>>
                /\ summary[1].success = FALSE
                /\ retval = <<FALSE>>

\* a run whose second or later step raised an unexpected exception and that
\* returned after printing its summary
C3_Witness ==
    /\ Returned
    /\ ~ui_raised
    /\ Last(exec_outcome) = "Exception"
    /\ Len(exec_outcome) > 1
    /\ retval = <<FALSE>>
    /\ summary[1].steps[Len(exec_outcome)][2] = FAILED

\* C4: at most one step is RUNNING, and a step is begun (it left PENDING, its
\* execute is about to be or was invoked) only when every earlier step is
\* SUCCESS.
C4_Sequential ==
    /\ Cardinality({i \in DOMAIN status : status[i] = RUNNING}) <= 1
    /\ \A i \in DOMAIN status :
           status[i] # PENDING => \A j \in 1..(i - 1) : status[j] = SUCCESS
    /\ pc = "execute" =>
           /\ status[current_step] = RUNNING
           /\ \A j \in 1..(current_step - 1) : status[j] = SUCCESS
    /\ invoked = UpTo(Len(invoked))

\* the last step of a pipeline of at least four steps is about to execute
C4_Witness ==
    /\ pc = "execute"
    /\ current_step = Len(steps)
    /\ Len(steps) >= 4
    /\ \A j \in 1..(current_step - 1) : status[j] = SUCCESS

\* C5: a status only moves PENDING -> RUNNING -> SUCCESS or FAILED; a
\* terminal status never changes again.
C5_StatusMonotone ==
    [][\A i \in DOMAIN status :
           \/ status'[i] = status[i]
           \/ <<status[i], status'[i]>> \in
                  {<<PENDING, RUNNING>>, <<RUNNING, SUCCESS>>, <<RUNNING, FAILED>>}]_vars

\* C6: configurations with the same build_type and signed flag get the same
\* sequence of steps, whatever their other fields are: every configuration
\* gets the steps of the running configuration, or of the running
\* configuration with only build_type and signed changed to its own.
C6_StepsDependOnVariantAndSigned ==
    (pc = "loop" /\ current_step = 0) =>
        \A c2 \in BuildConfigs :
            get_steps(c2) =
                IF c2.build_type = config.build_type /\ c2.signed = config.signed
                THEN steps
                ELSE get_steps([config EXCEPT !.build_type = c2.build_type,
                                             !.signed = c2.signed])

\* get_steps ran for a signed dmg configuration, and a configuration of that
\* variant with other metadata and without credentials exists
C6_Witness ==
    /\ pc = "loop"
    /\ current_step = 0
    /\ config.signed
    /\ config.build_type = "dmg"
    /\ Len(steps) = 7
    /\ \E c2 \in BuildConfigs :
           /\ c2.build_type = config.build_type
           /\ c2.signed = config.signed
           /\ c2.developer.apple_id = None
           /\ c2.developer.name # config.developer.name
           /\ c2.app # config.app

\* C7: total_steps equals the number of steps get_steps selects.
C7_TotalStepsMatches ==
    steps # <<>> => total_steps(config) = Len(steps)

\* C8: an unsigned dmg build selects exactly the bundle, convert, compile and
\* image steps; when all four succeed (and the ui calls return) run_build
\* returns True and the summary reports success, four SUCCESS entries and
\* the .dmg output path.
C8_UnsignedDmg ==
    (steps # <<>> /\ config.build_type = "dmg" /\ ~config.signed) =>
        /\ steps = <<"ViteBuildStep", "XcodeConvertStep", "XcodeBuildStep", "DMGCreateStep">>
        /\ (exec_outcome = <<"ok", "ok", "ok", "ok">> /\ ~ui_raised) =>
               /\ pc \in {"update_success", "loop", "print_summary", "done", "exit"}
               /\ pc \in {"done", "exit"} =>
                   /\ retval = <<TRUE>>
                   /\ Len(summary) = 1
                   /\ summary[1].success = TRUE
                   /\ summary[1].steps = [i \in 1..4 |-> <<StepName(steps[i]), SUCCESS>>]
                   /\ summary[1].output_path =
                          config.project_root \o "/" \o config.app.build_dir
                              \o "/stream-keys-safari.dmg"

\* an unsigned dmg build whose four steps succeeded has returned
C8_Witness ==
    /\ Returned
    /\ config.build_type = "dmg"
    /\ ~config.signed
    /\ exec_outcome = <<"ok", "ok", "ok", "ok">>
    /\ ~ui_raised
    /\ retval = <<TRUE>>
    /\ summary[1].output_path = output_path(config)

(***************************************************************************)
(* Properties of StapleStep.execute                                        *)
(***************************************************************************)
\* the sleeps of an execution that has made j attempts and is not about to
\* retry: the initial one and one after each of the attempts 1..j-1
SleepsFor(j) == [i \in 1..j |-> [seconds |-> RETRY_DELAY, after_attempt |-> i - 1]]

\* C9: if the stapler fails on attempts 1..j-1 and exits 0 on attempt j,
\* execute returns after exactly j invocations with exactly j-1 delays
\* between attempts, and no invocation follows.
C9_StapleSucceedsAtJ ==
    /\ \A i \in 1..(Len(returncodes) - 1) : returncodes[i] # 0
    /\ (returncodes # <<>> /\ Last(returncodes) = 0) =>
           LET j == Len(returncodes)
           IN  /\ j \in 1..MAX_RETRIES
               /\ st_pc = "returned"
               /\ st_error = <<>>
               /\ sleeps = SleepsFor(j)
               /\ Cardinality({i \in 1..Len(sleeps) : sleeps[i].after_attempt >= 1}) = j - 1
               /\ ~ENABLED NextStaple
    /\ st_pc = "returned" => (returncodes # <<>> /\ Last(returncodes) = 0)

\* the stapler failed four times and succeeded on the fifth attempt
C9_Witness ==
    /\ st_pc = "returned"
    /\ Len(returncodes) = 5
    /\ \A i \in 1..4 : returncodes[i] # 0
    /\ returncodes[5] = 0
    /\ Cardinality({i \in 1..Len(sleeps) : sleeps[i].after_attempt >= 1}) = 4

\* C10: if every invocation fails, execute makes exactly 5 invocations, does
\* not sleep after the fifth and raises BuildStepError with the exit code of
\* the fifth; it raises nothing before the fifth attempt has failed.
C10_StapleGivesUp ==
    /\ Len(returncodes) <= MAX_RETRIES
    /\ (Len(returncodes) = MAX_RETRIES /\ \A i \in 1..MAX_RETRIES : returncodes[i] # 0) =>
           /\ st_pc = "raised"
           /\ Len(st_error) = 1
           /\ st_error[1].exit_code = returncodes[MAX_RETRIES]
           /\ st_error[1].step_name = StepName("StapleStep")
           /\ \A i \in 1..Len(sleeps) : sleeps[i].after_attempt < MAX_RETRIES
           /\ sleeps = SleepsFor(MAX_RETRIES)
           /\ ~ENABLED NextStaple
    /\ (st_error # <<>> \/ st_pc = "raised") =>
           /\ Len(returncodes) = MAX_RETRIES
           /\ \A i \in 1..MAX_RETRIES : returncodes[i] # 0

\* five failed invocations whose last exit code differs from the first
C10_Witness ==
    /\ st_pc = "raised"
    /\ Len(returncodes) = 5
    /\ returncodes[5] # returncodes[1]
    /\ st_error[1].exit_code = returncodes[5]

(***************************************************************************)
(* steps/xcode.py: the fix-ups XcodeConvertStep applies to project.pbxproj *)
(***************************************************************************)
\* The content of project.pbxproj is a sequence of pieces of text.  The
\* pieces are the texts the fix-ups search for or insert, and one setting
\* they leave alone; none of the searched texts occurs inside or across
\* other pieces, so str.replace acts piece by piece.
OldBundleId == "com.getstreamkeys.Stream-Keys"

NewBundleId == "com.getstreamkeys.StreamKeys"

AppAnchor == "INFOPLIST_FILE = \"macOS (App)/Info.plist\";"

ExtAnchor == "INFOPLIST_FILE = \"macOS (Extension)/Info.plist\";"

AppEntitlements == "CODE_SIGN_ENTITLEMENTS = \"macOS (App)/App.entitlements\";\n\t\t\t\t"

ExtEntitlements ==
    "CODE_SIGN_ENTITLEMENTS = \"macOS (Extension)/Extension.entitlements\";\n\t\t\t\t"

OtherSetting == "SDKROOT = macosx;\n"

Pieces == {OldBundleId, NewBundleId, AppAnchor, ExtAnchor, AppEntitlements,
           ExtEntitlements, OtherSetting}

\* the longest project file of the model, in pieces
MaxPieces == 3

\* how many times the pair of fix-ups is applied
MaxRuns == 2

\* all sequences over S of length at most n
SeqsUpTo(S, n) == UNION {[1..k -> S] : k \in 0..n}

\* content.replace(old, new), where new is a sequence of pieces
RECURSIVE replace(_, _, _)
replace(content, old, new) ==
    IF content = <<>> THEN <<>>
    ELSE (IF Head(content) = old THEN new ELSE <<Head(content)>>)
             \o replace(Tail(content), old, new)

\* the content _fix_bundle_identifier writes back
fix_bundle_identifier(content) == replace(content, OldBundleId, <<NewBundleId>>)

\* the content _configure_entitlements writes back
configure_entitlements(content) ==
    replace(replace(content, AppAnchor, <<AppEntitlements, AppAnchor>>),
            ExtAnchor, <<ExtEntitlements, ExtAnchor>>)

\* the converter (or an earlier run) left some project file
InitFixups ==
    /\ ToolIdle
    /\ ProcIdle
    /\ OutIdle
    /\ ExecIdle
    /\ UiIdle
    /\ AppIdle
    /\ LogIdle
    /\ pbxproj \in SeqsUpTo(Pieces, MaxPieces)
    /\ fix_pc = "fix_bundle_identifier"
    /\ fix_runs = 0
    /\ pbx_once = <<>>

\* execute, line 76
FixBundleIdentifier ==
    /\ fix_pc = "fix_bundle_identifier"
    /\ pbxproj' = fix_bundle_identifier(pbxproj)
    /\ fix_pc' = "configure_entitlements"
    /\ UNCHANGED <<fix_runs, pbx_once>>
    /\ UNCHANGED <<toolVars, procVars, outVars, execVars, logVars, appVars, uiVars>>

\* execute, line 89; the pair is then applied again, up to MaxRuns times
ConfigureEntitlements ==
    /\ fix_pc = "configure_entitlements"
    /\ pbxproj' = configure_entitlements(pbxproj)
    /\ fix_runs' = fix_runs + 1
    /\ pbx_once' = IF fix_runs = 0 THEN <<pbxproj'>> ELSE pbx_once
    /\ fix_pc' = IF fix_runs' < MaxRuns THEN "fix_bundle_identifier" ELSE "done"
    /\ UNCHANGED <<toolVars, procVars, outVars, execVars, logVars, appVars, uiVars>>

NextFixups == FixBundleIdentifier \/ ConfigureEntitlements

SpecFixups == InitFixups /\ [][NextFixups]_vars

(***************************************************************************)
(* Properties of the fix-ups of XcodeConvertStep                           *)
(***************************************************************************)
\* C11: applying _fix_bundle_identifier and then _configure_entitlements a
\* second time leaves the content the first application produced, for every
\* content of the project file.
C11_FixupsIdempotent ==
    fix_runs >= 2 => pbxproj = pbx_once[1]

(***************************************************************************)
(* utils/process.py: ProcessRunner.run and the child it starts             *)
(***************************************************************************)
\* The bytes of the model: an ASCII letter, the newline, and the two bytes
\* of the UTF-8 encoding of U+00E9.
LeadByte == "0xC3"

ContByte == "0xA9"

Bytes == {"a", "\n", LeadByte, ContByte}

\* what bytes.decode("utf-8", errors="replace") puts for a byte that is not
\* part of a valid sequence
Replacement == "U+FFFD"

\* the longest output of the child, in bytes
MaxOutput == 5

\* bytes the kernel buffers between the child and the runner before the
\* child's write blocks
PipeCapacity == 1

\* bytes os.read returns at most (4096 in the code)
ReadSize == 2

\* the limit of the StreamReader (2 ** 16 in asyncio): a line longer than
\* the limit is an error, and the transport is paused while the buffer
\* holds more than twice the limit
ReaderLimit == 1

\* data.decode("utf-8", errors="replace"): a sequence of characters
RECURSIVE decode(_)
decode(bs) ==
    IF bs = <<>> THEN <<>>
    ELSE IF Head(bs) = LeadByte
         THEN IF Len(bs) >= 2 /\ bs[2] = ContByte
              THEN <<"U+00E9">> \o decode(SubSeq(bs, 3, Len(bs)))
              ELSE <<Replacement>> \o decode(Tail(bs))
         ELSE IF Head(bs) = ContByte
              THEN <<Replacement>> \o decode(Tail(bs))
              ELSE <<Head(bs)>> \o decode(Tail(bs))

\* number of bytes in front of the first newline of bs, Len(bs) if none
RECURSIVE isep(_)
isep(bs) ==
    IF bs = <<>> \/ Head(bs) = "\n" THEN 0 ELSE 1 + isep(Tail(bs))

\* run is called: either mode, with or without on_output, for a child that
\* is going to write any bytes
InitProc ==
    /\ ToolIdle
    /\ FixIdle
    /\ OutIdle
    /\ ExecIdle
    /\ UiIdle
    /\ AppIdle
    /\ LogIdle
    /\ p_mode \in {"pty", "simple"}
    /\ p_sink \in BOOLEAN
    /\ p_pc = "spawn"
    /\ child_todo \in SeqsUpTo(Bytes, MaxOutput)
    /\ child_exited = FALSE
    /\ pipe = <<>>
    /\ p_buf = <<>>
    /\ written = <<>>
    /\ delivered = <<>>
    /\ in_flight = 0
    /\ p_ret = <<>>

\* _run_with_pty lines 67-85 / _run_simple lines 102-111: the child is
\* started; _run_simple reads only "if process.stdout and on_output"
Spawn ==
    /\ p_pc = "spawn"
    /\ p_pc' = IF p_mode = "pty" \/ p_sink THEN "read" ELSE "wait"
    /\ UNCHANGED <<p_mode, p_sink, child_todo, child_exited, pipe, p_buf, written,
                   delivered, in_flight, p_ret>>
    /\ UNCHANGED <<toolVars, fixVars, outVars, execVars, logVars, appVars, uiVars>>

\* the child writes a byte; the write blocks while the kernel buffer is full
ChildWrite ==
    /\ p_pc \notin {"idle", "spawn"}
    /\ ~child_exited
    /\ child_todo # <<>>
    /\ Len(pipe) < PipeCapacity
    /\ pipe' = Append(pipe, Head(child_todo))
    /\ written' = Append(written, Head(child_todo))
    /\ child_todo' = Tail(child_todo)
    /\ UNCHANGED <<p_mode, p_sink, p_pc, child_exited, p_buf, delivered, in_flight, p_ret>>
    /\ UNCHANGED <<toolVars, fixVars, outVars, execVars, logVars, appVars, uiVars>>

\* the child has written everything and exits, closing its end
ChildExit ==
    /\ p_pc \notin {"idle", "spawn"}
    /\ ~child_exited
    /\ child_todo = <<>>
    /\ child_exited' = TRUE
    /\ UNCHANGED <<p_mode, p_sink, p_pc, child_todo, pipe, p_buf, written,
                   delivered, in_flight, p_ret>>
    /\ UNCHANGED <<toolVars, fixVars, outVars, execVars, logVars, appVars, uiVars>>

\* _run_simple: while run awaits, the event loop moves what the child wrote
\* into the StreamReader, unless the reader has paused the transport
FeedReader ==
    /\ p_mode = "simple"
    /\ p_pc \in {"read", "on_output", "wait"}
    /\ pipe # <<>>
    /\ Len(p_buf) <= 2 * ReaderLimit
    /\ p_buf' = Append(p_buf, Head(pipe))
    /\ pipe' = Tail(pipe)
    /\ UNCHANGED <<p_mode, p_sink, p_pc, child_todo, child_exited, written,
                   delivered, in_flight, p_ret>>
    /\ UNCHANGED <<toolVars, fixVars, outVars, execVars, logVars, appVars, uiVars>>

\* the call "await on_output(text)" up to the await
on_output(text) ==
    /\ delivered' = Append(delivered, text)
    /\ in_flight' = in_flight + 1
    /\ p_pc' = "on_output"

\* _read_fd_async lines 130-136: os.read returns some of the bytes that are
\* there, at most ReadSize; they are decoded and passed to on_output, if any
PtyRead ==
    /\ p_mode = "pty"
    /\ p_pc = "read"
    /\ pipe # <<>>
    /\ \E n \in 1..ReadSize :
           /\ n <= Len(pipe)
           /\ pipe' = SubSeq(pipe, n + 1, Len(pipe))
           /\ IF p_sink
              THEN on_output(decode(SubSeq(pipe, 1, n)))
              ELSE UNCHANGED <<delivered, in_flight, p_pc>>
    /\ UNCHANGED <<p_mode, p_sink, child_todo, child_exited, p_buf, written, p_ret>>
    /\ UNCHANGED <<toolVars, fixVars, outVars, execVars, logVars, appVars, uiVars>>

\* _read_fd_async lines 133-134 and 139-140: an empty read or an OSError
\* after the child closed the terminal ends the loop; _run_with_pty line 86
PtyEof ==
    /\ p_mode = "pty"
    /\ p_pc = "read"
    /\ pipe = <<>>
    /\ child_exited
    /\ p_pc' = "wait"
    /\ UNCHANGED <<p_mode, p_sink, child_todo, child_exited, pipe, p_buf, written,
                   delivered, in_flight, p_ret>>
    /\ UNCHANGED <<toolVars, fixVars, outVars, execVars, logVars, appVars, uiVars>>

\* _run_simple lines 113-116: the next line of process.stdout, up to and
\* including its newline, is decoded and passed to on_output
Readline ==
    /\ p_mode = "simple"
    /\ p_pc = "read"
    /\ isep(p_buf) < Len(p_buf)
    /\ isep(p_buf) <= ReaderLimit
    /\ p_buf' = SubSeq(p_buf, isep(p_buf) + 2, Len(p_buf))
    /\ on_output(decode(SubSeq(p_buf, 1, isep(p_buf) + 1)))
    /\ UNCHANGED <<p_mode, p_sink, child_todo, child_exited, pipe, written, p_ret>>
    /\ UNCHANGED <<toolVars, fixVars, outVars, execVars, logVars, appVars, uiVars>>

\* _run_simple lines 113-116: at end-of-stream an unterminated last line is
\* passed on, and the loop ends
ReadlineEof ==
    /\ p_mode = "simple"
    /\ p_pc = "read"
    /\ isep(p_buf) = Len(p_buf)
    /\ Len(p_buf) <= ReaderLimit
    /\ pipe = <<>>
    /\ child_exited
    /\ IF p_buf # <<>>
       THEN /\ p_buf' = <<>>
            /\ on_output(decode(p_buf))
       ELSE /\ p_pc' = "wait"
            /\ UNCHANGED <<p_buf, delivered, in_flight>>
    /\ UNCHANGED <<p_mode, p_sink, child_todo, child_exited, pipe, written, p_ret>>
    /\ UNCHANGED <<toolVars, fixVars, outVars, execVars, logVars, appVars, uiVars>>

\* _run_simple line 113: a line longer than the limit of the StreamReader
\* makes the iteration raise ValueError, which leaves run
ReadlineOverrun ==
    /\ p_mode = "simple"
    /\ p_pc = "read"
    /\ isep(p_buf) > ReaderLimit
    /\ p_buf' = <<>>
    /\ p_pc' = "raised"
    /\ UNCHANGED <<p_mode, p_sink, child_todo, child_exited, pipe, written,
                   delivered, in_flight, p_ret>>
    /\ UNCHANGED <<toolVars, fixVars, outVars, execVars, logVars, appVars, uiVars>>

\* on_output returns and the loop goes on
SinkReturn ==
    /\ p_pc = "on_output"
    /\ in_flight' = in_flight - 1
    /\ p_pc' = "read"
    /\ UNCHANGED <<p_mode, p_sink, child_todo, child_exited, pipe, p_buf, written,
                   delivered, p_ret>>
    /\ UNCHANGED <<toolVars, fixVars, outVars, execVars, logVars, appVars, uiVars>>

\* _run_with_pty lines 89-90 / _run_simple line 118: await process.wait()
\* completes once the child has exited; run returns its exit code
Wait ==
    /\ p_pc = "wait"
    /\ child_exited
    /\ \E returncode \in 0..MaxExitCode : p_ret' = <<returncode>>
    /\ p_pc' = "returned"
    /\ UNCHANGED <<p_mode, p_sink, child_todo, child_exited, pipe, p_buf, written,
                   delivered, in_flight>>
    /\ UNCHANGED <<toolVars, fixVars, outVars, execVars, logVars, appVars, uiVars>>

NextProc ==
    \/ Spawn
    \/ ChildWrite
    \/ ChildExit
    \/ FeedReader
    \/ PtyRead
    \/ PtyEof
    \/ Readline
    \/ ReadlineEof
    \/ ReadlineOverrun
    \/ SinkReturn
    \/ Wait

SpecProc == InitProc /\ [][NextProc]_vars

(***************************************************************************)
(* Properties of ProcessRunner.run                                         *)
(***************************************************************************)
\* xs[1] \o xs[2] \o ...
RECURSIVE Concat(_)
Concat(xs) == IF xs = <<>> THEN <<>> ELSE Head(xs) \o Concat(Tail(xs))

\* run has read the child's output to end-of-stream
AtEndOfStream == child_exited /\ pipe = <<>> /\ p_buf = <<>>

\* C12: in both modes, with or without on_output, run awaits the child's
\* exit only after it has read the output to end-of-stream, so that run is
\* never blocked for good: until it has returned or raised, the child or
\* run can take a step.
C12_DrainedBeforeWait ==
    /\ p_pc = "wait" => (AtEndOfStream \/ ENABLED NextProc)
    /\ p_pc \notin {"returned", "raised"} => ENABLED NextProc

\* C13: with on_output supplied, at most one call of it is in flight, the
\* chunks are delivered in the order the child produced them, when run has
\* returned their concatenation is the whole decoded output of the child,
\* and nothing is delivered after the return.
C13_SinkGetsAllInOrder ==
    p_sink =>
        /\ in_flight <= 1
        /\ p_pc = "on_output" <=> in_flight = 1
        /\ p_pc = "returned" =>
               /\ child_todo = <<>>
               /\ Concat(delivered) = decode(written)
               /\ in_flight = 0
               /\ ~ENABLED NextProc

(***************************************************************************)
(* utils/terminal.py: OutputProcessor                                      *)
(***************************************************************************)
\* A str is a sequence of characters.  The characters of the model: two
\* letters and the three control characters process handles.
CR == "\r"

LF == "\n"

BS == "\\b"

Chars == {"a", "b", CR, LF, BS}

\* the longest text passed to one call of process
MaxText == 4

\* the most characters passed to one processor, over all calls
MaxInput == 5

\* the most calls made on one processor
MaxCalls == 3

\* s[:-1]
ButLast(s) == SubSeq(s, 1, Len(s) - 1)

\* line 51: whether the "\r" at the head of text begins a "\r\n"
crlf_never(text) == FALSE

crlf(text) == Len(text) >= 2 /\ text[2] = LF

\* line 58: current_line after a "\r" that begins no "\r\n"
carriage_return_keeps(line) == line

carriage_return(line) == <<>>

\* lines 65-66: current_line after a "\b"
backspace_noop(line) == line

backspace(line) == IF line # <<>> THEN ButLast(line) ELSE line

\* lines 44-70: the loop of process over text, from current_line = line and
\* result_lines = lines
RECURSIVE scan(_, _, _)
scan(text, line, lines) ==
    IF text = <<>> THEN [current_line |-> line, result_lines |-> lines]
    ELSE LET char == Head(text)
         IN  IF char = CR
             THEN IF crlf(text)
                  THEN scan(SubSeq(text, 3, Len(text)), <<>>, Append(lines, line))
                  ELSE scan(Tail(text), carriage_return(line), lines)
             ELSE IF char = LF
                  THEN scan(Tail(text), <<>>, Append(lines, line))
                  ELSE IF char = BS
                       THEN scan(Tail(text), backspace(line), lines)
                       ELSE scan(Tail(text), Append(line, char), lines)

\* "\n".join(lines)
RECURSIVE join(_)
join(lines) ==
    IF lines = <<>> THEN <<>>
    ELSE IF Len(lines) = 1 THEN lines[1]
         ELSE lines[1] \o <<LF>> \o join(Tail(lines))

\* lines 73-75: the return value of process
process_return(result_lines) ==
    IF result_lines # <<>> THEN join(result_lines) \o <<LF>> ELSE <<>>

\* process(text) on a processor whose current_line is line: the return value
\* and the new current_line
process(text, line) ==
    LET r == scan(text, line, <<>>)
    IN  [result |-> process_return(r.result_lines), current_line |-> r.current_line]

\* flush() on a processor whose current_line is line
flush_keeps_line(line) ==
    [result |-> IF line # <<>> THEN line \o <<LF>> ELSE <<>>, current_line |-> line]

flush(line) ==
    IF line # <<>>
    THEN [result |-> line \o <<LF>>, current_line |-> <<>>]
    ELSE [result |-> <<>>, current_line |-> line]

\* the number of characters passed to the processor so far
RECURSIVE InputLen(_)
InputLen(calls) ==
    IF calls = <<>> THEN 0 ELSE Len(Head(calls).text) + InputLen(Tail(calls))

Min(m, n) == IF m <= n THEN m ELSE n

\* a processor is constructed
InitOut ==
    /\ ToolIdle
    /\ FixIdle
    /\ ProcIdle
    /\ ExecIdle
    /\ UiIdle
    /\ AppIdle
    /\ LogIdle
    /\ current_line = <<>>
    /\ op_calls = <<>>
    /\ op_prev = <<>>

\* a call of process, with any text
Process ==
    /\ Len(op_calls) < MaxCalls
    /\ \E text \in SeqsUpTo(Chars, Min(MaxText, MaxInput - InputLen(op_calls))) :
           /\ LET r == process(text, current_line)
              IN  /\ current_line' = r.current_line
                  /\ op_calls' = Append(op_calls,
                         [op |-> "process", text |-> text, result |-> r.result])
    /\ op_prev' = current_line
    /\ UNCHANGED <<toolVars, fixVars, procVars, execVars, logVars, appVars, uiVars>>

\* a call of flush
Flush ==
    /\ Len(op_calls) < MaxCalls
    /\ LET r == flush(current_line)
       IN  /\ current_line' = r.current_line
           /\ op_calls' = Append(op_calls,
                  [op |-> "flush", text |-> <<>>, result |-> r.result])
    /\ op_prev' = current_line
    /\ UNCHANGED <<toolVars, fixVars, procVars, execVars, logVars, appVars, uiVars>>

NextOut == Process \/ Flush

SpecOut == InitOut /\ [][NextOut]_vars

(***************************************************************************)
(* Properties of OutputProcessor                                           *)
(***************************************************************************)
LastCall == op_calls[Len(op_calls)]

\* the last call was a call of process
Processed == op_calls # <<>> /\ LastCall.op = "process"

\* text[i:] and text[:i-1], counting characters from 1
From(text, i) == SubSeq(text, i, Len(text))

Before(text, i) == SubSeq(text, 1, i - 1)

\* the number of "\n" in text
CountLF(text) == Cardinality({i \in 1..Len(text) : text[i] = LF})

\* C14: a "\r" that is not immediately followed by "\n" returns to the start
\* of the line and emits nothing: what a call returns and leaves in the
\* buffer is what the text before the "\r" completed, followed by what the
\* text after it gives on an empty line.  process("a\rb\n") = "b\n".
C14_CarriageReturn ==
    /\ process(<<"a", CR, "b", LF>>, <<>>).result = <<"b", LF>>
    /\ Processed =>
           LET text == LastCall.text
           IN  \A i \in 1..Len(text) :
                   (text[i] = CR /\ ~(i < Len(text) /\ text[i + 1] = LF)) =>
                       LET before == scan(Before(text, i), op_prev, <<>>)
                           upto   == scan(Before(text, i + 1), op_prev, <<>>)
                           after  == scan(From(text, i + 1), <<>>, <<>>)
                       IN  /\ upto.result_lines = before.result_lines
                           /\ upto.current_line = <<>>
                           /\ LastCall.result =
                                  process_return(before.result_lines \o after.result_lines)
                           /\ current_line = after.current_line

\* process("a\rb\n") was called on a new processor and returned "b\n"
C14_Witness ==
    /\ Processed
    /\ op_prev = <<>>
    /\ LastCall.text = <<"a", CR, "b", LF>>
    /\ LastCall.result = <<"b", LF>>
    /\ current_line = <<>>

\* C15: a "\r\n" is one newline: the line built so far is emitted once, with
\* its content, and no empty line follows it.
\* process("line1\r\nline2\n") = "line1\nline2\n".
C15_CrLfIsNewline ==
    /\ process(<<"a", CR, LF, "b", LF>>, <<>>).result = <<"a", LF, "b", LF>>
    /\ Processed =>
           LET text == LastCall.text
           IN  /\ CountLF(LastCall.result) = CountLF(text)
               /\ \A i \in 1..(Len(text) - 1) :
                      (text[i] = CR /\ text[i + 1] = LF) =>
                          LET before == scan(Before(text, i), op_prev, <<>>)
                              after  == scan(From(text, i + 2), <<>>, <<>>)
                          IN  /\ LastCall.result =
                                     process_return(before.result_lines
                                         \o <<before.current_line>> \o after.result_lines)
                              /\ current_line = after.current_line

\* process("a\r\nb") was called on a processor holding "b": it returned
\* "ba\n" and holds "b"
C15_Witness ==
    /\ Processed
    /\ op_prev = <<"b">>
    /\ LastCall.text = <<"a", CR, LF, "b">>
    /\ LastCall.result = <<"b", "a", LF>>
    /\ current_line = <<"b">>

\* C16: a "\b" deletes the last character of the current-line buffer, does
\* nothing when the buffer is empty, and leaves the completed lines alone.
\* process("ab\b\n") = "a\n".
C16_Backspace ==
    /\ process(<<"a", "b", BS, LF>>, <<>>).result = <<"a", LF>>
    /\ Processed =>
           LET text == LastCall.text
           IN  \A i \in 1..Len(text) :
                   text[i] = BS =>
                       LET before == scan(Before(text, i), op_prev, <<>>)
                           edited == IF before.current_line = <<>> THEN <<>>
                                     ELSE ButLast(before.current_line)
                           upto   == scan(Before(text, i + 1), op_prev, <<>>)
                           rest   == scan(From(text, i + 1), edited, before.result_lines)
                       IN  /\ upto.result_lines = before.result_lines
                           /\ upto.current_line = edited
                           /\ LastCall.result = process_return(rest.result_lines)
                           /\ current_line = rest.current_line

\* process("\bab\b") was called after a line was completed and the buffer
\* was empty: the first "\b" did nothing, the second deleted "b"
C16_Witness ==
    /\ Len(op_calls) = 2
    /\ op_calls[1].result # <<>>
    /\ Processed
    /\ op_prev = <<>>
    /\ LastCall.text = <<BS, "a", "b", BS>>
    /\ LastCall.result = <<>>
    /\ current_line = <<"a">>

\* the index of the first call after the last flush
RunStart ==
    LET flushes == {i \in 1..Len(op_calls) : op_calls[i].op = "flush"}
    IN  IF flushes = {} THEN 1
        ELSE 1 + CHOOSE i \in flushes : \A j \in flushes : j <= i

\* the texts passed to, and the values returned by, the calls i..Len(op_calls)
RECURSIVE TextsFrom(_)
TextsFrom(i) == IF i > Len(op_calls) THEN <<>> ELSE op_calls[i].text \o TextsFrom(i + 1)

RECURSIVE ResultsFrom(_)
ResultsFrom(i) == IF i > Len(op_calls) THEN <<>> ELSE op_calls[i].result \o ResultsFrom(i + 1)

\* no call since the last flush but the last one got a text that ends in "\r"
NoSplitCrLf ==
    \A j \in RunStart..(Len(op_calls) - 1) :
        op_calls[j].text = <<>> \/ Last(op_calls[j].text) # CR

\* C17: process returns the lines completed in that call, each terminated by
\* "\n", and "" when there is none; the unterminated tail stays in the
\* buffer for the next call, so that a text passed in several calls gives
\* the output and the buffer of the text passed in one.  flush returns the
\* tail followed by "\n" and empties the buffer; a flush with nothing
\* pending, a second flush in particular, returns "".
C17_LinesAndFlush ==
    op_calls # <<>> =>
        IF LastCall.op = "process"
        THEN /\ (LastCall.result = <<>>) <=> (CountLF(LastCall.text) = 0)
             /\ LastCall.result # <<>> => Last(LastCall.result) = LF
             /\ NoSplitCrLf =>
                    LET whole == process(TextsFrom(RunStart), <<>>)
                    IN  /\ ResultsFrom(RunStart) = whole.result
                        /\ current_line = whole.current_line
        ELSE /\ LastCall.result = IF op_prev = <<>> THEN <<>> ELSE op_prev \o <<LF>>
             /\ current_line = <<>>
             /\ (Len(op_calls) >= 2 /\ op_calls[Len(op_calls) - 1].op = "flush") =>
                    LastCall.result = <<>>

\* process("a\nab") returned "a\n", the first flush returned "ab\n" and the
\* second flush returned ""
C17_Witness ==
    /\ Len(op_calls) = 3
    /\ op_calls[1] = [op |-> "process", text |-> <<"a", LF, "a", "b">>, result |-> <<"a", LF>>]
    /\ op_calls[2] = [op |-> "flush", text |-> <<>>, result |-> <<"a", "b", LF>>]
    /\ op_calls[3] = [op |-> "flush", text |-> <<>>, result |-> <<>>]
    /\ current_line = <<>>

(***************************************************************************)
(* Properties of main                                                      *)
(***************************************************************************)
\* the configuration was loaded (config is a BuildConfig)
Loaded == pyproject_ok /\ pc # "main"

C19_InvalidConfigRunsNothing ==
    /\ (Loaded /\ validate(config, app_exists) # <<>>) =>
           /\ pc = "exit"
           /\ exit_code = <<1>>
           /\ stderr = <<"Configuration errors:">> \o
                  [i \in 1..Len(validate(config, app_exists)) |->
                      "  - " \o validate(config, app_exists)[i]]
           /\ started = <<>>
           /\ steps = <<>>
           /\ invoked = <<>>
           /\ summary = <<>>
           /\ retval = <<>>
           /\ ~ENABLED Next
    /\ started # <<>> => (Loaded /\ validate(config, app_exists) = <<>>)

\* main returned 1 for a signed rebuild of the disk image with credentials
\* missing and no application bundle: both errors were printed
C19_Witness ==
    /\ pc = "exit"
    /\ Loaded
    /\ config.build_type = "rebuild-dmg"
    /\ Len(validate(config, app_exists)) = 2
    /\ Len(stderr) = 3
    /\ started = <<>>

(***************************************************************************)
(* Properties of the final summary                                         *)
(***************************************************************************)
\* C20, as stated: print_summary gets the artifact path and the build
\* description only when the build succeeded; for a failed build it gets
\* neither.
C20_FailedSummaryHasNoDescription ==
    summary # <<>> =>
        /\ summary[1].success =>
               /\ summary[1].output_path = output_path(config)
               /\ summary[1].build_description = build_description(config)
        /\ ~summary[1].success =>
               /\ summary[1].output_path = None
               /\ summary[1].build_description = None

\* C20, amended: print_summary gets the artifact path only when the build
\* succeeded and None otherwise; it gets the build description in both
\* cases; what the ui prints shows the path and the description only when
\* the build succeeded.
C20_SummaryShowsOutputOnSuccessOnly ==
    summary # <<>> =>
        /\ summary[1].success = success
        /\ summary[1].output_path = IF success THEN output_path(config) ELSE None
        /\ summary[1].build_description = build_description(config)
        /\ print_summary_tail(summary[1]) =
               IF success
               THEN <<"=== Build Complete ===",
                      "Output: " \o output_path(config),
                      "Build type: " \o build_description(config)>>
               ELSE <<"=== Build Failed ===">>

\* the summary of a failed signed build was printed: the call carried the
\* build description and no path
C20_Witness ==
    /\ summary # <<>>
    /\ ~summary[1].success
    /\ summary[1].output_path = None
    /\ summary[1].build_description = "Signed + Notarized DMG"
    /\ print_summary_tail(summary[1]) = <<"=== Build Failed ===">>

(***************************************************************************)
(* Properties of the command line                                          *)
(***************************************************************************)
\* C21, as stated: for each of the three variants the configuration main
\* builds is signed exactly when --signed was given.
C21_SignedIffFlag ==
    Loaded => (config.signed <=> args.signed)

\* C21, amended: the variant is the one the command line selects; for dmg
\* and rebuild-dmg the configuration is signed exactly when --signed was
\* given, and for appstore it is signed whether or not --signed was given.
C21_SignedIffFlagOrAppstore ==
    Loaded =>
        /\ config.build_type = get_build_type(args)
        /\ config.build_type \in {"dmg", "rebuild-dmg"} => (config.signed <=> args.signed)
        /\ config.build_type = "appstore" => config.signed

\* main built the configuration of "--appstore" without "--signed": it is
\* signed
C21_Witness ==
    /\ Loaded
    /\ args.appstore
    /\ ~args.signed
    /\ config.build_type = "appstore"
    /\ config.signed

(***************************************************************************)
(* steps/*.py: execute of a single step                                    *)
(***************************************************************************)
\* execute of a step is called with one of the configurations configs;
\* nothing was spawned or written yet
ExecuteCalledOn(configs) ==
    /\ config \in configs
    /\ args = None
    /\ environ = None
    /\ app = config.app
    /\ pyproject_ok = TRUE
    /\ stdout_isatty = TRUE
    /\ use_tui = None
    /\ exit_code = <<>>
    /\ started = <<>>
    /\ stderr = <<>>
    /\ pc = "step"
    /\ Idle
    /\ FixIdle
    /\ ProcIdle
    /\ OutIdle
    /\ x_pc = "start"
    /\ x_spawned = <<>>
    /\ x_output = <<>>
    /\ x_checks = <<>>
    /\ x_error = <<>>
    /\ open_fds = {}
    /\ LogIdle
    /\ UiIdle
    /\ AppIdle

\* the same, for a step that does not look at the disk image; the
\* application bundle is there
ExecuteCalledWith(configs) ==
    /\ ExecuteCalledOn(configs)
    /\ app_exists = TRUE
    /\ image = <<>>

\* execute of step cls is called as run_build calls it: for a configuration
\* that passed validate() and selects the step
ExecuteCalled(cls) ==
    ExecuteCalledWith({c \in BuildConfigs : should_run(cls, c) /\ validate(c, TRUE) = <<>>})

\* raise BuildStepError(step_name, message, exit_code); exit_code is a list,
\* empty for None
Raise(cls, message, code) ==
    /\ x_error' = <<[step_name |-> StepName(cls), message |-> message, exit_code |-> code]>>
    /\ x_pc' = "raised"

\* the elements of a sequence
Range(xs) == {xs[i] : i \in DOMAIN xs}

(***************************************************************************)
(* steps/signing.py: SigningVerifyStep.execute                             *)
(***************************************************************************)
\* The value of an "Authority=" line is a sequence of pieces of text, and
\* "developer_name in signing_authority" holds when the name is one of them.
\* The list is empty when the output of codesign has no such line.
Authorities ==
    {<<>>,
     <<<<>>>>,
     <<<<"Developer ID Application: ", "Jane Dev", " (TEAM123)">>>>,
     <<<<"Developer ID Application: ", "Someone Else", " (TEAM999)">>>>}

\* what codesign answers: the exit codes of the two --verify runs, and of the
\* output of "codesign -dv" and "codesign -d --entitlements" what execute
\* looks for in it
CodesignEnvs ==
    [verify_app : 0..MaxExitCode,
     authority : Authorities,
     flags : BOOLEAN,
     runtime : BOOLEAN,
     timestamp : BOOLEAN,
     get_task_allow : BOOLEAN,
     verify_extension : 0..MaxExitCode]

InitVerify ==
    /\ ExecuteCalled("SigningVerifyStep")
    /\ x_env \in CodesignEnvs

\* lines 47-65: the signature of the app
SvVerifyApp ==
    /\ x_pc = "start"
    /\ x_spawned' = Append(x_spawned, "codesign --verify app")
    /\ x_checks' = Append(x_checks, "app signature")
    /\ x_output' = Append(x_output, "  Checking app signature...")
    /\ IF x_env.verify_app # 0
       THEN Raise("SigningVerifyStep", "App signature verification failed:",
                  <<x_env.verify_app>>)
       ELSE /\ x_pc' = "identity"
            /\ UNCHANGED x_error
    /\ UNCHANGED x_env
    /\ UNCHANGED <<image, open_fds, logVars, appVars, uiVars>>
    /\ UNCHANGED <<toolVars, fixVars, procVars, outVars>>

\* lines 67-93: the first Authority line of "codesign -dv" names the developer
SvIdentity ==
    /\ x_pc = "identity"
    /\ x_spawned' = Append(x_spawned, "codesign -dv")
    /\ x_checks' = Append(x_checks, "signing identity")
    /\ IF /\ x_env.authority # <<>>
          /\ x_env.authority[1] # <<>>
          /\ config.developer.name \in Range(x_env.authority[1])
       THEN /\ x_output' = x_output \o <<"  Checking signing identity...", "Signed by">>
            /\ x_pc' = "runtime"
            /\ UNCHANGED x_error
       ELSE /\ x_output' = Append(x_output, "  Checking signing identity...")
            /\ Raise("SigningVerifyStep", "Wrong signing identity", <<>>)
    /\ UNCHANGED x_env
    /\ UNCHANGED <<image, open_fds, logVars, appVars, uiVars>>
    /\ UNCHANGED <<toolVars, fixVars, procVars, outVars>>

\* lines 95-100: the hardened runtime flag
SvRuntime ==
    /\ x_pc = "runtime"
    /\ x_checks' = Append(x_checks, "hardened runtime")
    /\ IF x_env.flags /\ x_env.runtime
       THEN /\ x_output' = x_output \o <<"  Checking for hardened runtime and timestamp...",
                                          "Hardened runtime enabled">>
            /\ x_pc' = "timestamp"
            /\ UNCHANGED x_error
       ELSE /\ x_output' = Append(x_output, "  Checking for hardened runtime and timestamp...")
            /\ Raise("SigningVerifyStep", "Hardened runtime not enabled", <<>>)
    /\ UNCHANGED <<x_env, x_spawned>>
    /\ UNCHANGED <<image, open_fds, logVars, appVars, uiVars>>
    /\ UNCHANGED <<toolVars, fixVars, procVars, outVars>>

\* mutant: a missing timestamp does not raise
SvTimestamp_ignored ==
    /\ x_pc = "timestamp"
    /\ x_checks' = Append(x_checks, "secure timestamp")
    /\ x_output' = Append(x_output, "Secure timestamp present")
    /\ x_pc' = "entitlements"
    /\ UNCHANGED <<x_env, x_spawned, x_error>>
    /\ UNCHANGED <<image, open_fds, logVars, appVars, uiVars>>
    /\ UNCHANGED <<toolVars, fixVars, procVars, outVars>>

\* lines 102-105: the secure timestamp
SvTimestamp ==
    /\ x_pc = "timestamp"
    /\ x_checks' = Append(x_checks, "secure timestamp")
    /\ IF x_env.timestamp
       THEN /\ x_output' = Append(x_output, "Secure timestamp present")
            /\ x_pc' = "entitlements"
            /\ UNCHANGED x_error
       ELSE /\ Raise("SigningVerifyStep", "Secure timestamp missing", <<>>)
            /\ UNCHANGED x_output
    /\ UNCHANGED <<x_env, x_spawned>>
    /\ UNCHANGED <<image, open_fds, logVars, appVars, uiVars>>
    /\ UNCHANGED <<toolVars, fixVars, procVars, outVars>>

\* lines 107-126: no get-task-allow among the entitlements
SvEntitlements ==
    /\ x_pc = "entitlements"
    /\ x_spawned' = Append(x_spawned, "codesign -d --entitlements")
    /\ x_checks' = Append(x_checks, "debug entitlement")
    /\ IF x_env.get_task_allow
       THEN /\ x_output' = Append(x_output, "  Checking entitlements (no debug entitlement)...")
            /\ Raise("SigningVerifyStep",
                     "Debug entitlement 'get-task-allow' found - will fail notarization", <<>>)
       ELSE /\ x_output' = x_output \o <<"  Checking entitlements (no debug entitlement)...",
                                          "No debug entitlement">>
            /\ x_pc' = "extension"
            /\ UNCHANGED x_error
    /\ UNCHANGED x_env
    /\ UNCHANGED <<image, open_fds, logVars, appVars, uiVars>>
    /\ UNCHANGED <<toolVars, fixVars, procVars, outVars>>

\* lines 128-148: the signature of the extension, and the final message
SvVerifyExtension ==
    /\ x_pc = "extension"
    /\ x_spawned' = Append(x_spawned, "codesign --verify extension")
    /\ x_checks' = Append(x_checks, "extension signature")
    /\ IF x_env.verify_extension # 0
       THEN /\ x_output' = Append(x_output, "  Checking extension signature...")
            /\ Raise("SigningVerifyStep", "Extension signature verification failed",
                     <<x_env.verify_extension>>)
       ELSE /\ x_output' = x_output \o <<"  Checking extension signature...",
                                          "Extension signature valid",
                                          "All signature checks passed!">>
            /\ x_pc' = "returned"
            /\ UNCHANGED x_error
    /\ UNCHANGED x_env
    /\ UNCHANGED <<image, open_fds, logVars, appVars, uiVars>>
    /\ UNCHANGED <<toolVars, fixVars, procVars, outVars>>

NextVerify ==
    \/ SvVerifyApp
    \/ SvIdentity
    \/ SvRuntime
    \/ SvTimestamp
    \/ SvEntitlements
    \/ SvVerifyExtension

SpecVerify == InitVerify /\ [][NextVerify]_vars

(***************************************************************************)
(* Properties of SigningVerifyStep.execute                                 *)
(***************************************************************************)
\* the six checks, in the order of the code
SixChecks ==
    <<"app signature", "signing identity", "hardened runtime", "secure timestamp",
      "debug entitlement", "extension signature">>

\* whether check i passes for the answers of codesign
Passes(i) ==
    CASE i = 1 -> x_env.verify_app = 0
      [] i = 2 -> /\ x_env.authority # <<>>
                  /\ x_env.authority[1] # <<>>
                  /\ config.developer.name \in Range(x_env.authority[1])
      [] i = 3 -> x_env.flags /\ x_env.runtime
      [] i = 4 -> x_env.timestamp
      [] i = 5 -> ~x_env.get_task_allow
      [] i = 6 -> x_env.verify_extension = 0

\* C22: execute reports "All signature checks passed" and returns only if all
\* six checks passed; the first check that fails raises BuildStepError, and
\* no later check is performed.
C22_AllSixChecks ==
    /\ x_checks = SubSeq(SixChecks, 1, Len(x_checks))
    /\ \A i \in 1..(Len(x_checks) - 1) : Passes(i)
    /\ ("All signature checks passed!" \in Range(x_output) \/ x_pc = "returned") =>
           /\ x_pc = "returned"
           /\ x_checks = SixChecks
           /\ \A i \in 1..6 : Passes(i)
           /\ x_error = <<>>
           /\ Last(x_output) = "All signature checks passed!"
    /\ (x_checks # <<>> /\ ~Passes(Len(x_checks))) =>
           /\ x_pc = "raised"
           /\ Len(x_error) = 1
           /\ x_error[1].step_name = StepName("SigningVerifyStep")
           /\ ~ENABLED NextVerify
    /\ x_pc = "raised" <=> x_error # <<>>
    /\ x_pc = "raised" => ~Passes(Len(x_checks))

\* the timestamp is missing, and the entitlements and the extension would
\* fail too: execute raised at the fourth check after two codesign runs
C22_Witness ==
    /\ x_pc = "raised"
    /\ x_checks = SubSeq(SixChecks, 1, 4)
    /\ x_error[1].message = "Secure timestamp missing"
    /\ x_env.get_task_allow
    /\ x_env.verify_extension # 0
    /\ Len(x_spawned) = 2

(***************************************************************************)
(* steps/notarize.py: NotarizeStep.execute                                 *)
(***************************************************************************)
\* what notarytool answers: its exit code, and whether its output has an
\* "id:" line
NotarytoolEnvs == [returncode : 0..MaxExitCode, id : BOOLEAN]

\* execute is called for any configuration that selects the step, with or
\* without the credentials (main calls it only after validate())
InitNotarize ==
    /\ ExecuteCalledWith({c \in BuildConfigs : NotarizeStep_should_run(c)})
    /\ x_env \in NotarytoolEnvs

\* mutant: only an absent credential is refused, an empty one is not
NzCredentials_none_only ==
    /\ x_pc = "start"
    /\ x_checks' = Append(x_checks, "credentials")
    /\ IF config.developer.apple_id = None \/ config.developer.app_specific_password = None
       THEN Raise("NotarizeStep",
                  "Missing APPLE_ID or APPLE_APP_SPECIFIC_PASSWORD for notarization", <<>>)
       ELSE /\ x_pc' = "submit"
            /\ UNCHANGED x_error
    /\ UNCHANGED <<x_env, x_spawned, x_output>>
    /\ UNCHANGED <<image, open_fds, logVars, appVars, uiVars>>
    /\ UNCHANGED <<toolVars, fixVars, procVars, outVars>>

\* lines 36-44: the credentials
NzCredentials ==
    /\ x_pc = "start"
    /\ x_checks' = Append(x_checks, "credentials")
    /\ IF Falsy(config.developer.apple_id) \/ Falsy(config.developer.app_specific_password)
       THEN Raise("NotarizeStep",
                  "Missing APPLE_ID or APPLE_APP_SPECIFIC_PASSWORD for notarization", <<>>)
       ELSE /\ x_pc' = "submit"
            /\ UNCHANGED x_error
    /\ UNCHANGED <<x_env, x_spawned, x_output>>
    /\ UNCHANGED <<image, open_fds, logVars, appVars, uiVars>>
    /\ UNCHANGED <<toolVars, fixVars, procVars, outVars>>

\* lines 46-81: notarytool submit --wait, its output and its exit code
NzSubmit ==
    /\ x_pc = "submit"
    /\ x_spawned' = Append(x_spawned, "xcrun notarytool submit")
    /\ IF x_env.returncode # 0
       THEN /\ x_output' = Append(x_output, "notarytool output")
            /\ Raise("NotarizeStep", "Notarization failed", <<x_env.returncode>>)
       ELSE /\ x_output' = x_output \o <<"notarytool output">>
                               \o (IF x_env.id THEN <<"Submission ID: id">> ELSE <<>>)
                               \o <<"Notarization successful">>
            /\ x_pc' = "returned"
            /\ UNCHANGED x_error
    /\ UNCHANGED <<x_env, x_checks>>
    /\ UNCHANGED <<image, open_fds, logVars, appVars, uiVars>>
    /\ UNCHANGED <<toolVars, fixVars, procVars, outVars>>

NextNotarize == NzCredentials \/ NzSubmit

SpecNotarize == InitNotarize /\ [][NextNotarize]_vars

(***************************************************************************)
(* Properties of NotarizeStep.execute                                      *)
(***************************************************************************)
\* C23: if apple_id or app_specific_password is absent or empty, execute
\* raises BuildStepError before it spawns the notarization process and
\* before it emits any output.
C23_NotarizeFailsFast ==
    /\ (x_pc # "start" /\ (Falsy(config.developer.apple_id)
                              \/ Falsy(config.developer.app_specific_password))) =>
           /\ x_pc = "raised"
           /\ Len(x_error) = 1
           /\ x_error[1].step_name = StepName("NotarizeStep")
           /\ x_spawned = <<>>
           /\ x_output = <<>>
           /\ ~ENABLED NextNotarize
    /\ (x_spawned # <<>> \/ x_output # <<>>) =>
           /\ ~Falsy(config.developer.apple_id)
           /\ ~Falsy(config.developer.app_specific_password)

\* APPLE_ID is set to the empty string and the password is present: execute
\* raised with nothing spawned
C23_Witness ==
    /\ x_pc = "raised"
    /\ config.developer.apple_id = ""
    /\ config.developer.app_specific_password = "abcd-efgh"
    /\ x_spawned = <<>>
    /\ x_output = <<>>

(***************************************************************************)
(* Order of the pipeline                                                   *)
(***************************************************************************)
\* position of a step class in the master order
Rank(cls) == CHOOSE i \in DOMAIN all_steps : all_steps[i] = cls

\* the k-th invocation of execute was preceded by an invocation of a step of
\* classes that returned normally
SucceededBefore(k, classes) ==
    \E j \in 1..(k - 1) : steps[invoked[j]] \in classes /\ exec_outcome[j] = "ok"

InvokedOnlyAfter(cls, classes) ==
    \A k \in DOMAIN invoked : steps[invoked[k]] = cls => SucceededBefore(k, classes)

\* C24: the selected pipeline is a subsequence of the master order (bundle,
\* convert, compile, existing-signature verify, fresh-signature verify, image
\* assembly, notarization, stapling, package assembly); notarization is
\* attempted only after image assembly succeeded, stapling only after
\* notarization succeeded, and in a signed pipeline image or package
\* assembly only after a signature-verification step succeeded.
C24_MasterOrder ==
    /\ \A i \in DOMAIN steps : steps[i] \in Range(all_steps)
    /\ \A i, j \in DOMAIN steps : i < j => Rank(steps[i]) < Rank(steps[j])
    /\ InvokedOnlyAfter("NotarizeStep", {"DMGCreateStep"})
    /\ InvokedOnlyAfter("StapleStep", {"NotarizeStep"})
    /\ (Loaded /\ config.signed) =>
           /\ InvokedOnlyAfter("DMGCreateStep", {"RebuildDMGVerifyStep", "SigningVerifyStep"})
           /\ InvokedOnlyAfter("AppStorePackageStep", {"RebuildDMGVerifyStep", "SigningVerifyStep"})

\* a signed image build got as far as invoking the stapler
C24_Witness ==
    /\ Loaded
    /\ config.signed
    /\ config.build_type = "dmg"
    /\ invoked # <<>>
    /\ steps[Last(invoked)] = "StapleStep"
    /\ Len(invoked) = 7

(***************************************************************************)
(* steps/vite.py, steps/xcode.py, steps/appstore.py: the steps that run    *)
(* one tool through ProcessRunner.run                                      *)
(***************************************************************************)
ToolSteps == {"ViteBuildStep", "XcodeConvertStep", "XcodeBuildStep", "AppStorePackageStep"}

\* the command each step hands to runner.run
Command(cls) ==
    CASE cls = "ViteBuildStep"       -> "npx vite build"
      [] cls = "XcodeConvertStep"    -> "xcrun safari-web-extension-converter"
      [] cls = "XcodeBuildStep"      -> "xcodebuild"
      [] cls = "AppStorePackageStep" -> "productbuild"

\* what the step writes before it runs the tool
Preface(cls) ==
    CASE cls = "XcodeBuildStep"      -> <<"Building with Xcode">>
      [] cls = "AppStorePackageStep" -> <<"Creating package with installer certificate">>
      [] OTHER                       -> <<>>

FailureMessage(cls) ==
    CASE cls = "ViteBuildStep"       -> "Failed to build Safari extension"
      [] cls = "XcodeConvertStep"    -> "Failed to convert to Xcode project"
      [] cls = "XcodeBuildStep"      -> "Failed to build with Xcode"
      [] cls = "AppStorePackageStep" -> "Failed to create installer package"

\* how runner.run ends: it returns process.returncode (negative when the
\* child was killed by a signal), as a list of one, or it raises (the tool is
\* not installed), the empty list
RunOutcomes == {<<rc>> : rc \in (0 - 1)..MaxExitCode} \cup {<<>>}

InitTool ==
    \E cls \in ToolSteps :
        /\ ExecuteCalled(cls)
        /\ x_env \in [step : {cls}, run : RunOutcomes]

\* mutant: only a positive exit code is a failure
ToolRun_positive_only ==
    /\ x_pc = "start"
    /\ x_spawned' = Append(x_spawned, Command(x_env.step))
    /\ IF x_env.run = <<>>
       THEN /\ x_output' = x_output \o Preface(x_env.step)
            /\ x_pc' = "crashed"
            /\ UNCHANGED x_error
       ELSE /\ x_output' = x_output \o Preface(x_env.step) \o <<"tool output">>
            /\ IF x_env.run[1] > 0
               THEN Raise(x_env.step, FailureMessage(x_env.step), x_env.run)
               ELSE /\ x_pc' = "after_run"
                    /\ UNCHANGED x_error
    /\ UNCHANGED <<x_env, x_checks>>
    /\ UNCHANGED <<image, open_fds, logVars, appVars, uiVars>>
    /\ UNCHANGED <<toolVars, fixVars, procVars, outVars>>

\* vite.py 35-47, xcode.py 47-71 and 185-198, appstore.py 39-60: the line
\* written first, runner.run, and the test of its exit code
ToolRun ==
    /\ x_pc = "start"
    /\ x_spawned' = Append(x_spawned, Command(x_env.step))
    /\ IF x_env.run = <<>>
       THEN /\ x_output' = x_output \o Preface(x_env.step)
            /\ x_pc' = "crashed"
            /\ UNCHANGED x_error
       ELSE /\ x_output' = x_output \o Preface(x_env.step) \o <<"tool output">>
            /\ IF x_env.run[1] # 0
               THEN Raise(x_env.step, FailureMessage(x_env.step), x_env.run)
               ELSE /\ x_pc' = "after_run"
                    /\ UNCHANGED x_error
    /\ UNCHANGED <<x_env, x_checks>>
    /\ UNCHANGED <<image, open_fds, logVars, appVars, uiVars>>
    /\ UNCHANGED <<toolVars, fixVars, procVars, outVars>>

\* vite.py and XcodeBuildStep: nothing follows; appstore.py 62-66: two lines
ToolReturn ==
    /\ x_pc = "after_run"
    /\ x_env.step # "XcodeConvertStep"
    /\ x_output' = x_output \o (IF x_env.step = "AppStorePackageStep"
                                THEN <<"Package created", "Note: App Store packages are not notarized">>
                                ELSE <<>>)
    /\ x_pc' = "returned"
    /\ UNCHANGED <<x_env, x_spawned, x_checks, x_error>>
    /\ UNCHANGED <<image, open_fds, logVars, appVars, uiVars>>
    /\ UNCHANGED <<toolVars, fixVars, procVars, outVars>>

\* xcode.py 73-89: the fix-ups of the project file the converter wrote and
\* the copies of the entitlements files; a file operation may raise OSError
ConvertFixups ==
    /\ x_pc = "after_run"
    /\ x_env.step = "XcodeConvertStep"
    /\ \/ /\ \E written_project \in SeqsUpTo(Pieces, 1) :
                 pbxproj' = configure_entitlements(fix_bundle_identifier(written_project))
          /\ x_output' = x_output \o <<"Fixing bundle identifiers", "Copying entitlements files",
                                       "Configuring entitlements in Xcode project">>
          /\ x_pc' = "returned"
       \/ /\ x_output' = Append(x_output, "Fixing bundle identifiers")
          /\ x_pc' = "crashed"
          /\ UNCHANGED pbxproj
    /\ UNCHANGED <<x_env, x_spawned, x_checks, x_error>>
    /\ UNCHANGED <<image, open_fds, logVars, appVars, uiVars>>
    /\ UNCHANGED <<toolVars, fix_pc, fix_runs, pbx_once, procVars, outVars>>

NextTool == ToolRun \/ ToolReturn \/ ConvertFixups

SpecTool == InitTool /\ [][NextTool]_vars

(***************************************************************************)
(* Properties of the steps that run one tool                               *)
(***************************************************************************)
\* C25: for ViteBuildStep, XcodeBuildStep, AppStorePackageStep and the
\* converter call of XcodeConvertStep, execute raises a BuildStepError
\* carrying the step name and the process exit code exactly when
\* ProcessRunner.run returns a non-zero exit code.
C25_RaisesIffNonZero ==
    x_pc # "start" =>
        /\ (x_error # <<>>) <=> (x_env.run # <<>> /\ x_env.run[1] # 0)
        /\ (x_pc = "raised") <=> (x_error # <<>>)
        /\ x_error # <<>> =>
               /\ Len(x_error) = 1
               /\ x_error[1].step_name = StepName(x_env.step)
               /\ x_error[1].exit_code = x_env.run
               /\ ~ENABLED NextTool

\* the converter was killed by a signal and the step raised with that code
C25_Witness ==
    /\ x_pc = "raised"
    /\ x_env.step = "XcodeConvertStep"
    /\ x_env.run = <<0 - 1>>
    /\ x_error[1].exit_code = <<0 - 1>>

(***************************************************************************)
(* Reporting of failures                                                   *)
(***************************************************************************)
\* C26: a run in which run_build returns False has called ui.log_error
\* before print_summary, and a configuration failure prints an error line
\* before main returns 1: no such failure ends without an error line and a
\* non-zero exit code.
C26_FailuresAreReported ==
    /\ (pc = "print_summary" /\ ~success) => log_errors # <<>>
    /\ retval = <<FALSE>> =>
           /\ log_errors # <<>>
           /\ Len(summary) = 1
           /\ ~summary[1].success
    /\ (pc = "exit" /\ retval = <<FALSE>>) => exit_code = <<1>>
    /\ (pc # "main" /\ (~pyproject_ok \/ validate(config, app_exists) # <<>>)) =>
           /\ pc = "exit"
           /\ stderr # <<>>
           /\ exit_code = <<1>>
    /\ (pc = "exit" /\ exit_code = <<0>>) => retval = <<TRUE>>

\* the first step raised BuildStepError, every call on the ui returned, and
\* main returned 1 after the one error line
C26_Witness ==
    /\ pc = "exit"
    /\ retval = <<FALSE>>
    /\ exit_code = <<1>>
    /\ exec_outcome = <<"BuildStepError">>
    /\ log_errors = <<BuildStepErrorStr(steps[1])>>
    /\ ~ui_raised

(***************************************************************************)
(* utils/logging.py: rotate_logs and BuildLogger.start                     *)
(***************************************************************************)
DEFAULT_MAX_LOGS == 5

\* how many builds follow one another
MaxBuilds == 7

\* path.unlink()
unlink(files, i) == [j \in DOMAIN files \ {i} |-> files[j]]

\* path.rename(target): a target that exists is replaced
rename(files, i, k) ==
    [j \in (DOMAIN files \ {i}) \cup {k} |-> IF j = k THEN files[i] ELSE files[j]]

\* the transcript a unlink, a rename onto, or an open(..., "w") of index i
\* destroys
Destroyed(files, i) == IF i \in DOMAIN files THEN {files[i]} ELSE {}

\* an empty log directory, and some max_log_files >= 1
InitLog ==
    /\ ToolIdle
    /\ FixIdle
    /\ ProcIdle
    /\ OutIdle
    /\ ExecIdle
    /\ UiIdle
    /\ AppIdle
    /\ max_logs \in 1..DEFAULT_MAX_LOGS
    /\ log_files = <<>>
    /\ builds = 0
    /\ log_pc = "idle"
    /\ log_i = 0
    /\ log_lost = {}

\* start, line 85, and rotate_logs, lines 51-52: the next build starts its
\* logger
LogStart ==
    /\ log_pc = "idle"
    /\ builds < MaxBuilds
    /\ builds' = builds + 1
    /\ log_lost' = {}
    /\ log_pc' = "unlink"
    /\ UNCHANGED <<max_logs, log_files, log_i>>
    /\ UNCHANGED <<toolVars, fixVars, procVars, outVars, execVars, appVars, uiVars>>

\* rotate_logs, lines 55-57 and the head of the loop at line 60
LogUnlinkOldest ==
    /\ log_pc = "unlink"
    /\ log_files' = unlink(log_files, max_logs - 1)
    /\ log_lost' = log_lost \cup Destroyed(log_files, max_logs - 1)
    /\ log_i' = max_logs - 2
    /\ log_pc' = "rename"
    /\ UNCHANGED <<max_logs, builds>>
    /\ UNCHANGED <<toolVars, fixVars, procVars, outVars, execVars, appVars, uiVars>>

\* mutant: the loop stops before the current log (range(max_logs - 2, 0, -1))
LogRename_skips_current ==
    /\ log_pc = "rename"
    /\ IF log_i >= 1
       THEN /\ IF log_i \in DOMAIN log_files
               THEN /\ log_files' = rename(log_files, log_i, log_i + 1)
                    /\ log_lost' = log_lost \cup Destroyed(log_files, log_i + 1)
               ELSE UNCHANGED <<log_files, log_lost>>
            /\ log_i' = log_i - 1
            /\ UNCHANGED log_pc
       ELSE /\ log_pc' = "open"
            /\ UNCHANGED <<log_files, log_lost, log_i>>
    /\ UNCHANGED <<max_logs, builds>>
    /\ UNCHANGED <<toolVars, fixVars, procVars, outVars, execVars, appVars, uiVars>>

\* rotate_logs, lines 60-64: one iteration of for i in range(max_logs - 2, -1, -1)
LogRename ==
    /\ log_pc = "rename"
    /\ IF log_i >= 0
       THEN /\ IF log_i \in DOMAIN log_files
               THEN /\ log_files' = rename(log_files, log_i, log_i + 1)
                    /\ log_lost' = log_lost \cup Destroyed(log_files, log_i + 1)
               ELSE UNCHANGED <<log_files, log_lost>>
            /\ log_i' = log_i - 1
            /\ UNCHANGED log_pc
       ELSE /\ log_pc' = "open"
            /\ UNCHANGED <<log_files, log_lost, log_i>>
    /\ UNCHANGED <<max_logs, builds>>
    /\ UNCHANGED <<toolVars, fixVars, procVars, outVars, execVars, appVars, uiVars>>

\* start, lines 86-88: open(self.log_path, "w"); the file holds the
\* transcript of this build
LogOpen ==
    /\ log_pc = "open"
    /\ log_files' = [j \in DOMAIN log_files \cup {0} |-> IF j = 0 THEN builds ELSE log_files[j]]
    /\ log_lost' = log_lost \cup Destroyed(log_files, 0)
    /\ log_pc' = "writing"
    /\ UNCHANGED <<max_logs, builds, log_i>>
    /\ UNCHANGED <<toolVars, fixVars, procVars, outVars, execVars, appVars, uiVars>>

\* close, lines 113-117: the build is over
LogClose ==
    /\ log_pc = "writing"
    /\ log_pc' = "idle"
    /\ UNCHANGED <<max_logs, log_files, builds, log_i, log_lost>>
    /\ UNCHANGED <<toolVars, fixVars, procVars, outVars, execVars, appVars, uiVars>>

NextLog == LogStart \/ LogUnlinkOldest \/ LogRename \/ LogOpen \/ LogClose

SpecLog == InitLog /\ [][NextLog]_vars

(***************************************************************************)
(* Properties of the log rotation                                          *)
(***************************************************************************)
\* C27: after any number of consecutive builds with the same max_logs = N
\* >= 1, from an empty log directory, at most N log files exist once start()
\* has run; they are the transcripts of the N most recent builds, build.log
\* the current one and build.log.i the i-th previous one, and a rotation
\* destroys no transcript other than the oldest.
C27_KeepsLastN ==
    /\ (builds >= 1 /\ log_pc \in {"writing", "idle"}) =>
           /\ DOMAIN log_files = 0..(Min(builds, max_logs) - 1)
           /\ Cardinality(DOMAIN log_files) <= max_logs
           /\ \A i \in DOMAIN log_files : log_files[i] = builds - i
    /\ log_lost \subseteq {b \in {builds - max_logs} : b >= 1}

\* the fifth build with max_logs = 3 has started: the rotation destroyed the
\* transcript of the second build and nothing else
C27_Witness ==
    /\ log_pc = "writing"
    /\ max_logs = 3
    /\ builds = 5
    /\ log_lost = {2}
    /\ DOMAIN log_files = {0, 1, 2}

(***************************************************************************)
(* Termination of StapleStep.execute                                       *)
(***************************************************************************)
\* at most MAX_RETRIES invocations and sleeps, each sleep of RETRY_DELAY
StapleBounded ==
    /\ Len(returncodes) <= 5
    /\ Len(returncodes) <= MAX_RETRIES
    /\ Len(sleeps) <= 5
    /\ \A i \in DOMAIN sleeps : sleeps[i].seconds = RETRY_DELAY
    /\ ~ENABLED NextStaple => st_pc \in {"returned", "raised"}

\* execute returned or raised BuildStepError
StapleEnded ==
    \/ st_pc = "returned" /\ st_error = <<>>
    \/ st_pc = "raised" /\ Len(st_error) = 1

\* C28: StapleStep.execute terminates for every behaviour of the stapler,
\* provided each invocation terminates: it makes at most 5 invocations and
\* at most 5 sleeps of RETRY_DELAY, then either returns or raises
\* BuildStepError.
C28_StapleTerminates == []StapleBounded /\ <>[]StapleEnded

\* the stapler failed with alternating exit codes: execute raised after five
\* invocations and five sleeps
C28_Witness ==
    /\ st_pc = "raised"
    /\ returncodes = <<1, 2, 1, 2, 1>>
    /\ Len(sleeps) = 5
    /\ st_error[1].exit_code = 1

(***************************************************************************)
(* OutputProcessor and the chunks it is fed                                *)
(***************************************************************************)
\* C29: the lines the processor emits do not depend on how the text is
\* split into chunks: the process(chunk) results followed by flush() equal
\* process(whole text) followed by flush(), also when "\r" ends one chunk and
\* "\n" starts the next.
C29_ChunkingInvariant ==
    (op_calls # <<>> /\ LastCall.op = "process") =>
        LET whole == process(TextsFrom(RunStart), <<>>)
        IN  ResultsFrom(RunStart) \o flush(current_line).result
                = whole.result \o flush(whole.current_line).result

(***************************************************************************)
(* steps/dmg.py: DMGCreateStep.execute                                     *)
(***************************************************************************)
\* what execute finds: a disk image from an earlier build at the output
\* path, the background image, the volume icon, and how dmgbuild ends
DmgEnvs == [previous : BOOLEAN, background : BOOLEAN, icon : BOOLEAN,
            dmgbuild : {"ok", "raises"}]

InitDmg ==
    /\ ExecuteCalledOn({c \in BuildConfigs : DMGCreateStep_should_run(c)})
    /\ app_exists \in BOOLEAN
    /\ validate(config, app_exists) = <<>>
    /\ x_env \in DmgEnvs
    /\ image = IF x_env.previous THEN <<"previous">> ELSE <<>>

\* lines 36-55: the existing image is removed, then the four paths are
\* written
DmgRemoveExisting ==
    /\ x_pc = "start"
    /\ image' = <<>>
    /\ x_output' = x_output
                       \o (IF image # <<>> THEN <<"Removed existing DMG">> ELSE <<>>)
                       \o <<"App", "Background", "Icon", "Output">>
    /\ x_pc' = "verify"
    /\ UNCHANGED <<x_env, x_spawned, x_checks, x_error>>
    /\ UNCHANGED <<open_fds, logVars, appVars, uiVars>>
    /\ UNCHANGED <<toolVars, fixVars, procVars, outVars>>

\* lines 57-65: the three paths must exist
DmgVerifyPaths ==
    /\ x_pc = "verify"
    /\ IF ~app_exists
       THEN /\ x_checks' = Append(x_checks, "app")
            /\ Raise("DMGCreateStep", "App not found", <<>>)
       ELSE IF ~x_env.background
       THEN /\ x_checks' = x_checks \o <<"app", "background">>
            /\ Raise("DMGCreateStep", "Background image not found", <<>>)
       ELSE IF ~x_env.icon
       THEN /\ x_checks' = x_checks \o <<"app", "background", "icon">>
            /\ Raise("DMGCreateStep", "Volume icon not found", <<>>)
       ELSE /\ x_checks' = x_checks \o <<"app", "background", "icon">>
            /\ x_pc' = "build"
            /\ UNCHANGED x_error
    /\ UNCHANGED <<x_env, x_spawned, x_output, image>>
    /\ UNCHANGED <<open_fds, logVars, appVars, uiVars>>
    /\ UNCHANGED <<toolVars, fixVars, procVars, outVars>>

\* lines 67-117: dmgbuild.build_dmg writes the image, or raises
DmgBuild ==
    /\ x_pc = "build"
    /\ x_spawned' = Append(x_spawned, "dmgbuild.build_dmg")
    /\ IF x_env.dmgbuild = "ok"
       THEN /\ image' = <<"new">>
            /\ x_output' = x_output \o <<"Building DMG...", "DMG created">>
            /\ x_pc' = "returned"
            /\ UNCHANGED x_error
       ELSE /\ x_output' = Append(x_output, "Building DMG...")
            /\ Raise("DMGCreateStep", "Failed to create DMG", <<>>)
            /\ UNCHANGED image
    /\ UNCHANGED <<x_env, x_checks>>
    /\ UNCHANGED <<open_fds, logVars, appVars, uiVars>>
    /\ UNCHANGED <<toolVars, fixVars, procVars, outVars>>

NextDmg == DmgRemoveExisting \/ DmgVerifyPaths \/ DmgBuild

SpecDmg == InitDmg /\ [][NextDmg]_vars

(***************************************************************************)
(* Properties of DMGCreateStep.execute                                     *)
(***************************************************************************)
\* C30: if execute fails one of its precondition checks (app bundle,
\* background image or volume icon missing), a disk image already present at
\* the output path is left in place: a run of the step that produces no new
\* image does not delete the previous artifact.
C30_PreviousImageKept ==
    (x_pc = "raised" /\ x_spawned = <<>> /\ x_env.previous) => image = <<"previous">>

(***************************************************************************)
(* steps/signing.py: RebuildDMGVerifyStep.execute                          *)
(***************************************************************************)
InitRebuildVerify ==
    /\ ExecuteCalled("RebuildDMGVerifyStep")
    /\ x_env \in CodesignEnvs

\* lines 181-198: the signature of the existing app
RvVerifyApp ==
    /\ x_pc = "start"
    /\ x_spawned' = Append(x_spawned, "codesign --verify app")
    /\ x_checks' = Append(x_checks, "app signature")
    /\ IF x_env.verify_app # 0
       THEN Raise("RebuildDMGVerifyStep",
                  "Code signature verification failed for existing build.",
                  <<x_env.verify_app>>)
       ELSE /\ x_pc' = "identity"
            /\ UNCHANGED x_error
    /\ UNCHANGED <<x_env, x_output>>
    /\ UNCHANGED <<image, open_fds, logVars, appVars, uiVars>>
    /\ UNCHANGED <<toolVars, fixVars, procVars, outVars>>

\* lines 200-224: the first Authority line of "codesign -dv", when there is
\* one and it is not empty, must name the developer
RvIdentity ==
    /\ x_pc = "identity"
    /\ x_spawned' = Append(x_spawned, "codesign -dv")
    /\ x_checks' = Append(x_checks, "signing identity")
    /\ IF /\ x_env.authority # <<>>
          /\ x_env.authority[1] # <<>>
          /\ config.developer.name \notin Range(x_env.authority[1])
       THEN Raise("RebuildDMGVerifyStep",
                  "Existing build was signed with wrong identity", <<>>)
       ELSE /\ x_pc' = "runtime"
            /\ UNCHANGED x_error
    /\ UNCHANGED <<x_env, x_output>>
    /\ UNCHANGED <<image, open_fds, logVars, appVars, uiVars>>
    /\ UNCHANGED <<toolVars, fixVars, procVars, outVars>>

\* lines 226-235: the hardened runtime flag, then the one line of output
RvRuntime ==
    /\ x_pc = "runtime"
    /\ x_checks' = Append(x_checks, "hardened runtime")
    /\ IF ~x_env.flags \/ ~x_env.runtime
       THEN /\ Raise("RebuildDMGVerifyStep",
                     "Existing build does not have hardened runtime enabled.", <<>>)
            /\ UNCHANGED x_output
       ELSE /\ x_output' = Append(x_output, "Existing build signature verified")
            /\ x_pc' = "returned"
            /\ UNCHANGED x_error
    /\ UNCHANGED <<x_env, x_spawned>>
    /\ UNCHANGED <<image, open_fds, logVars, appVars, uiVars>>
    /\ UNCHANGED <<toolVars, fixVars, procVars, outVars>>

NextRebuildVerify == RvVerifyApp \/ RvIdentity \/ RvRuntime

SpecRebuildVerify == InitRebuildVerify /\ [][NextRebuildVerify]_vars

(***************************************************************************)
(* Properties of RebuildDMGVerifyStep.execute                              *)
(***************************************************************************)
\* the identity decision of SigningVerifyStep (line 87) on the codesign
\* information of the state
SigningVerifyAccepts ==
    /\ x_env.authority # <<>>
    /\ x_env.authority[1] # <<>>
    /\ config.developer.name \in Range(x_env.authority[1])

\* C31: RebuildDMGVerifyStep makes the identity decision SigningVerifyStep
\* makes on the same codesign information: it rejects the app unless an
\* "Authority=" line is present and contains the developer name, so an
\* existing build that shows no signing authority fails.
C31_SameIdentityDecision ==
    x_pc \in {"runtime", "returned"} \/ (x_pc = "raised" /\ Len(x_checks) = 3)
        => SigningVerifyAccepts

(***************************************************************************)
(* Shape of the summary                                                    *)
(***************************************************************************)
\* the statuses of the list given to print_summary, in order
SummaryStatuses == [i \in 1..Len(summary[1].steps) |-> summary[1].steps[i][2]]

\* C32: the status list passed to print_summary is a run of SUCCESS entries,
\* then at most one FAILED entry, then only PENDING entries; it never holds
\* RUNNING or SKIPPED; and the success flag, which is also run_build's
\* return value, is true exactly when every entry is SUCCESS and there is
\* one entry for every selected step.
C32_SummaryShape ==
    summary # <<>> =>
        /\ Len(summary) = 1
        /\ \E k \in 0..Len(SummaryStatuses) :
               /\ \A i \in 1..k : SummaryStatuses[i] = SUCCESS
               /\ k < Len(SummaryStatuses) => SummaryStatuses[k + 1] \in {FAILED, PENDING}
               /\ \A i \in (k + 2)..Len(SummaryStatuses) : SummaryStatuses[i] = PENDING
        /\ \A i \in DOMAIN SummaryStatuses : SummaryStatuses[i] \notin {RUNNING, SKIPPED}
        /\ retval = <<summary[1].success>>
        /\ summary[1].success <=>
               /\ \A i \in DOMAIN SummaryStatuses : SummaryStatuses[i] = SUCCESS
               /\ Len(SummaryStatuses) = Len(steps)

\* the second of four steps raised BuildStepError: SUCCESS, FAILED, PENDING,
\* PENDING and success False
C32_Witness ==
    /\ summary # <<>>
    /\ SummaryStatuses = <<SUCCESS, FAILED, PENDING, PENDING>>
    /\ ~summary[1].success
    /\ retval = <<FALSE>>

(***************************************************************************)
(* NotarizeStep.execute after validate()                                   *)
(***************************************************************************)
\* execute is called as main and run_build call it: validate() reported no
\* error for the configuration (the application bundle may or may not exist
\* yet) and should_run selected the step
InitNotarizeValidated ==
    /\ ExecuteCalledOn({c \in BuildConfigs : NotarizeStep_should_run(c)})
    /\ app_exists \in BOOLEAN
    /\ validate(config, app_exists) = <<>>
    /\ image = <<>>
    /\ x_env \in NotarytoolEnvs

SpecNotarizeValidated == InitNotarizeValidated /\ [][NextNotarize]_vars

\* C33: for a configuration for which validate() reports no error, whenever
\* NotarizeStep is selected its missing-credentials check cannot fail:
\* validate() has rejected every signed dmg or rebuild-dmg configuration
\* whose apple_id or app_specific_password is absent or empty.
C33_ValidatedCredentials ==
    /\ ~Falsy(config.developer.apple_id)
    /\ ~Falsy(config.developer.app_specific_password)
    /\ x_pc # "start" =>
           /\ x_checks = <<"credentials">>
           /\ x_pc = "raised" => (x_spawned # <<>> /\ x_error[1].message = "Notarization failed")
    /\ \A c \in BuildConfigs :
           (/\ NotarizeStep_should_run(c)
            /\ Falsy(c.developer.apple_id) \/ Falsy(c.developer.app_specific_password)) =>
               validate(c, app_exists) # <<>>

\* a validated signed rebuild of the disk image passed the credentials check
\* and notarytool was started
C33_Witness ==
    /\ config.build_type = "rebuild-dmg"
    /\ x_checks = <<"credentials">>
    /\ x_spawned = <<"xcrun notarytool submit">>
    /\ x_pc = "returned"

(***************************************************************************)
(* The artifact of a pipeline                                              *)
(***************************************************************************)
\* the artifact-producing steps of a step list
ArtifactSteps(selected) ==
    {i \in DOMAIN selected : selected[i] \in {"DMGCreateStep", "AppStorePackageStep"}}

\* the step list has exactly one artifact-producing step, the one that
\* writes the output file of configuration c
OneArtifactStep(selected, c) ==
    /\ Cardinality(ArtifactSteps(selected)) = 1
    /\ ("DMGCreateStep" \in Range(selected) /\ "AppStorePackageStep" \notin Range(selected))
           <=> output_file(c) = "stream-keys-safari.dmg"
    /\ ("AppStorePackageStep" \in Range(selected) /\ "DMGCreateStep" \notin Range(selected))
           <=> output_file(c) = "stream-keys-safari-appstore.pkg"

\* C34: for every build_type and signed flag, get_steps selects exactly one
\* artifact-producing step and it matches the configured output file:
\* DMGCreateStep and not AppStorePackageStep exactly when output_file is the
\* .dmg, AppStorePackageStep and not DMGCreateStep exactly when it is the
\* .pkg.
C34_OneArtifactStep ==
    /\ (Loaded /\ pc \notin {"run_build", "exit"}) => OneArtifactStep(steps, config)
    /\ (Loaded /\ pc = "loop" /\ current_step = 0) =>
           \A bt \in BuildTypes, sg \in BOOLEAN :
               LET c == [config EXCEPT !.build_type = bt, !.signed = sg]
               IN  OneArtifactStep(get_steps(c), c)

\* the pipeline of an App Store build was selected: it ends with the package
\* step and the output file is the .pkg
C34_Witness ==
    /\ Loaded
    /\ steps # <<>>
    /\ config.build_type = "appstore"
    /\ Last(steps) = "AppStorePackageStep"
    /\ output_file(config) = "stream-keys-safari-appstore.pkg"
    /\ pc = "loop"
    /\ current_step = 0

(***************************************************************************)
(* The sleeps of StapleStep.execute                                        *)
(***************************************************************************)
\* C35: StapleStep sleeps the same RETRY_DELAY (15 s) before every stapler
\* attempt, the first included, and never after the last one: a run that
\* made j attempts has slept exactly j times, and the delay does not grow
\* with the attempt number.
C35_SleepBeforeEveryAttempt ==
    /\ RETRY_DELAY = 15
    /\ \A i \in DOMAIN sleeps :
           /\ sleeps[i].seconds = RETRY_DELAY
           /\ sleeps[i].after_attempt = i - 1
    /\ st_pc = "attempt" => Len(sleeps) = Len(returncodes) + 1
    /\ st_pc \in {"sleep", "returned", "raised"} => Len(sleeps) = Len(returncodes)
    /\ st_pc \in {"returned", "raised"} => ~ENABLED StapleSleep

\* the third attempt succeeded: three invocations, three sleeps
C35_Witness ==
    /\ st_pc = "returned"
    /\ Len(returncodes) = 3
    /\ Len(sleeps) = 3
    /\ returncodes[3] = 0

(***************************************************************************)
(* the statuses the two user interfaces record                             *)
(***************************************************************************)
\* run_build stands right after a notification about a started step returned
\* (log_step, update_step_status), with no assignment to a status in between
AfterNotification ==
    \/ pc \in {"update_running", "execute"}
    \/ pc \in {"loop", "print_summary"} /\ current_step > 0

\* SimpleUI and BuildApp both hold the runner's status of step i
SameStatusRecorded(i) ==
    /\ i <= Len(simple_statuses)
    /\ simple_statuses[i][2] = status[i]
    /\ i <= Len(app_statuses)
    /\ app_statuses[i] = status[i]

\* both hold for step i the status of its entry in the summary
SummaryRecorded(i) ==
    /\ i <= Len(simple_statuses)
    /\ simple_statuses[i][2] = summary[Len(summary)].steps[i][2]
    /\ i <= Len(app_statuses)
    /\ app_statuses[i] = summary[Len(summary)].steps[i][2]

\* C36: after each notification SimpleUI and BuildApp record, for every
\* started step, the same status, which is the step's status in the runner;
\* and once print_summary was called each started step's recorded status is
\* the status of its entry in the summary
C36_SameStatusRecorded ==
    /\ AfterNotification => \A i \in 1..current_step : SameStatusRecorded(i)
    /\ pc = "done" /\ summary # <<>> => \A i \in 1..current_step : SummaryRecorded(i)

(***************************************************************************)
(* ui/app.py: BuildApp.log_output and the replay of on_unmount             *)
(***************************************************************************)
\* for line in self.output_buffer: print(line, end="")
RECURSIVE Printed(_)
Printed(buffer) ==
    IF buffer = <<>> THEN <<>> ELSE Head(buffer) \o Printed(Tail(buffer))

\* a BuildApp is constructed (lines 77-110): empty buffer, a fresh
\* OutputProcessor, not mounted; nothing was printed to the terminal
InitApp ==
    /\ ToolIdle
    /\ FixIdle
    /\ ProcIdle
    /\ ExecIdle
    /\ UiIdle
    /\ LogIdle
    /\ OutIdle
    /\ AppIdle

\* the application has exited: on_unmount has run
Exited == terminal # <<>>

\* on_mount, lines 125-147
AppMount ==
    /\ ~mounted
    /\ ~Exited
    /\ mounted' = TRUE
    /\ UNCHANGED <<output_buffer, terminal>>
    /\ UNCHANGED <<toolVars, fixVars, procVars, outVars, execVars, logVars, uiVars>>

\* log_output(text), lines 149-175: the raw text goes into output_buffer;
\* once mounted the text is also passed through the OutputProcessor, whose
\* result is written to the RichLog
AppLogOutput ==
    /\ ~Exited
    /\ Len(op_calls) < MaxCalls
    /\ \E text \in SeqsUpTo(Chars, Min(MaxText, MaxInput - InputLen(op_calls))) :
           /\ output_buffer' = Append(output_buffer, text)
           /\ IF ~mounted
              THEN /\ op_calls' = Append(op_calls,
                          [op |-> "log_output", text |-> text, result |-> <<>>])
                   /\ UNCHANGED current_line
              ELSE LET r == process(text, current_line)
                   IN  /\ current_line' = r.current_line
                       /\ op_calls' = Append(op_calls,
                              [op |-> "process", text |-> text, result |-> r.result])
    /\ op_prev' = current_line
    /\ UNCHANGED <<mounted, terminal>>
    /\ UNCHANGED <<toolVars, fixVars, procVars, execVars, logVars, uiVars>>

\* on_unmount, lines 322-337: flush the processor, append what it returns to
\* the buffer if it is not empty, print the buffer to the terminal
AppUnmount ==
    /\ mounted
    /\ ~Exited
    /\ LET r == flush(current_line)
           buffer == IF r.result # <<>> THEN Append(output_buffer, r.result)
                     ELSE output_buffer
       IN  /\ current_line' = r.current_line
           /\ op_calls' = Append(op_calls,
                  [op |-> "flush", text |-> <<>>, result |-> r.result])
           /\ output_buffer' = buffer
           /\ terminal' = <<Printed(buffer)>>
    /\ op_prev' = current_line
    /\ UNCHANGED mounted
    /\ UNCHANGED <<toolVars, fixVars, procVars, execVars, logVars, uiVars>>

NextApp == AppMount \/ AppLogOutput \/ AppUnmount

SpecApp == InitApp /\ [][NextApp]_vars

\* everything delivered to log_output, in delivery order
Delivered == TextsFrom(1)

\* C37: after the TUI has exited, the replay has printed what was delivered
\* to log_output, every piece once and in delivery order, a last line that
\* no newline ended included (with or without a newline to end it)
C37_ReplayedOnce ==
    Exited => \/ terminal[1] = Delivered
              \/ terminal[1] = Delivered \o <<LF>>

(***************************************************************************)
(* utils/process.py: the descriptors of _run_with_pty                      *)
(***************************************************************************)
\* run is called on ProcessRunner(use_pty=True), with or without a sink, for
\* a child that will write child_todo; no descriptor is open for the call
InitPty ==
    /\ ToolIdle
    /\ FixIdle
    /\ OutIdle
    /\ ExecIdle
    /\ UiIdle
    /\ AppIdle
    /\ LogIdle
    /\ p_mode = "pty"
    /\ p_sink \in BOOLEAN
    /\ p_pc = "openpty"
    /\ child_todo \in SeqsUpTo(Bytes, MaxOutput)
    /\ child_exited = FALSE
    /\ pipe = <<>>
    /\ p_buf = <<>>
    /\ written = <<>>
    /\ delivered = <<>>
    /\ in_flight = 0
    /\ p_ret = <<>>

\* line 64: master_fd, slave_fd = pty.openpty()
PtyOpen ==
    /\ p_pc = "openpty"
    /\ open_fds' = open_fds \cup {"master_fd", "slave_fd"}
    /\ p_pc' = "spawn"
    /\ UNCHANGED <<p_mode, p_sink, child_todo, child_exited, pipe, p_buf, written,
                   delivered, in_flight, p_ret>>
    /\ UNCHANGED <<toolVars, fixVars, outVars, logVars, appVars, uiVars>>
    /\ UNCHANGED <<x_pc, x_env, x_spawned, x_output, x_checks, x_error, image>>

\* lines 75-82: await asyncio.create_subprocess_exec(...), which returns the
\* process or raises (no such command, no such cwd); the exception leaves
\* _run_with_pty, where nothing catches it
PtySpawn ==
    /\ p_pc = "spawn"
    /\ \/ p_pc' = "close_slave"
       \/ p_pc' = "raised"
    /\ UNCHANGED open_fds
    /\ UNCHANGED <<p_mode, p_sink, child_todo, child_exited, pipe, p_buf, written,
                   delivered, in_flight, p_ret>>
    /\ UNCHANGED <<toolVars, fixVars, outVars, logVars, appVars, uiVars>>
    /\ UNCHANGED <<x_pc, x_env, x_spawned, x_output, x_checks, x_error, image>>

\* line 83: os.close(slave_fd)
PtyCloseSlave ==
    /\ p_pc = "close_slave"
    /\ open_fds' = open_fds \ {"slave_fd"}
    /\ p_pc' = "read"
    /\ UNCHANGED <<p_mode, p_sink, child_todo, child_exited, pipe, p_buf, written,
                   delivered, in_flight, p_ret>>
    /\ UNCHANGED <<toolVars, fixVars, outVars, logVars, appVars, uiVars>>
    /\ UNCHANGED <<x_pc, x_env, x_spawned, x_output, x_checks, x_error, image>>

\* _read_fd_async lines 131-137: os.read returns up to ReadSize bytes of the
\* child's output; they are decoded and on_output, if any, is awaited
PtyReadBlock ==
    /\ p_pc = "read"
    /\ child_todo # <<>>
    /\ \E n \in 1..ReadSize :
           /\ n <= Len(child_todo)
           /\ child_todo' = SubSeq(child_todo, n + 1, Len(child_todo))
           /\ written' = written \o SubSeq(child_todo, 1, n)
           /\ IF p_sink
              THEN /\ delivered' = Append(delivered, decode(SubSeq(child_todo, 1, n)))
                   /\ in_flight' = in_flight + 1
                   /\ p_pc' = "sink"
              ELSE UNCHANGED <<delivered, in_flight, p_pc>>
    /\ UNCHANGED open_fds
    /\ UNCHANGED <<p_mode, p_sink, child_exited, pipe, p_buf, p_ret>>
    /\ UNCHANGED <<toolVars, fixVars, outVars, logVars, appVars, uiVars>>
    /\ UNCHANGED <<x_pc, x_env, x_spawned, x_output, x_checks, x_error, image>>

\* _read_fd_async lines 133-135 and 138-140: the child has written
\* everything and closed the terminal; os.read returns b"" or raises OSError,
\* and either ends the loop
PtyReadEnd ==
    /\ p_pc = "read"
    /\ child_todo = <<>>
    /\ child_exited' = TRUE
    /\ p_pc' = "close_master"
    /\ UNCHANGED open_fds
    /\ UNCHANGED <<p_mode, p_sink, child_todo, pipe, p_buf, written,
                   delivered, in_flight, p_ret>>
    /\ UNCHANGED <<toolVars, fixVars, outVars, logVars, appVars, uiVars>>
    /\ UNCHANGED <<x_pc, x_env, x_spawned, x_output, x_checks, x_error, image>>

\* line 137: await on_output(...) returns, or raises.  The try of lines
\* 132-140 catches OSError only: an OSError of the sink ends the loop like
\* the end of the output, any other exception leaves _read_fd_async and
\* _run_with_pty
PtySink ==
    /\ p_pc = "sink"
    /\ in_flight' = in_flight - 1
    /\ \/ p_pc' = "read"
       \/ p_pc' = "close_master"
       \/ p_pc' = "raised"
    /\ UNCHANGED open_fds
    /\ UNCHANGED <<p_mode, p_sink, child_todo, child_exited, pipe, p_buf, written,
                   delivered, p_ret>>
    /\ UNCHANGED <<toolVars, fixVars, outVars, logVars, appVars, uiVars>>
    /\ UNCHANGED <<x_pc, x_env, x_spawned, x_output, x_checks, x_error, image>>

\* line 88: os.close(master_fd)
PtyCloseMaster ==
    /\ p_pc = "close_master"
    /\ open_fds' = open_fds \ {"master_fd"}
    /\ p_pc' = "wait"
    /\ UNCHANGED <<p_mode, p_sink, child_todo, child_exited, pipe, p_buf, written,
                   delivered, in_flight, p_ret>>
    /\ UNCHANGED <<toolVars, fixVars, outVars, logVars, appVars, uiVars>>
    /\ UNCHANGED <<x_pc, x_env, x_spawned, x_output, x_checks, x_error, image>>

\* lines 89-90: await process.wait(); return process.returncode or 0
PtyWait ==
    /\ p_pc = "wait"
    /\ \E returncode \in 0..MaxExitCode : p_ret' = <<returncode>>
    /\ child_exited' = TRUE
    /\ p_pc' = "returned"
    /\ UNCHANGED open_fds
    /\ UNCHANGED <<p_mode, p_sink, child_todo, pipe, p_buf, written,
                   delivered, in_flight>>
    /\ UNCHANGED <<toolVars, fixVars, outVars, logVars, appVars, uiVars>>
    /\ UNCHANGED <<x_pc, x_env, x_spawned, x_output, x_checks, x_error, image>>

NextPty ==
    \/ PtyOpen
    \/ PtySpawn
    \/ PtyCloseSlave
    \/ PtyReadBlock
    \/ PtyReadEnd
    \/ PtySink
    \/ PtyCloseMaster
    \/ PtyWait

SpecPty == InitPty /\ [][NextPty]_vars

\* control has left run: it returned the exit code or an exception left it
LeftRun == p_pc \in {"returned", "raised"}

\* C38: on every way out of a pty-mode run (return, failure to start the
\* child, an exception of the output sink) the master and the slave
\* descriptor opened for the call are closed
C38_DescriptorsClosed == LeftRun => open_fds = {}

====
